---- MODULE Spec2Model ----
(***************************************************************************)
(* Pong Invaders: the play session (PlayState), its ball, paddle and the   *)
(* alien swarm (AlienManager), as a state machine.                         *)
(*                                                                         *)
(* Numbers.  The program computes in floating point.  The model computes   *)
(* in fixed point: a length is a whole number of 1/2000 world units, a     *)
(* time a whole number of 1/200 s, a velocity a whole number of 1/100      *)
(* world units per second, and a unit normal has components in 1/1000.     *)
(* With these resolutions every quantity of the swarm (positions, the move *)
(* interval, the distance of a swarm step) and of the paddle is exact; the *)
(* ball's reflections and speed changes are rounded toward zero.           *)
(***************************************************************************)
EXTENDS Integers, Sequences, FiniteSets, TLC

VARIABLES
  state,            \* PlayState.state
  score,            \* PlayState.score
  lives,            \* PlayState.lives
  level,            \* PlayState.level
  ballLostTimeout,  \* PlayState.ballLostTimeout: {} is null, {id} a timer handle
  timers,           \* the handles of the scheduled, not yet fired timeouts
  balls,            \* PlayState.balls
  paddles,          \* PlayState.paddles
  am,               \* PlayState.alienManager
  reachBottomCalls, \* invocations of the reach-bottom callback since the last AlienManager.reset()
  calls,            \* the session methods the last handler invoked
  objects,          \* SimplePhysics.objects
  pass,             \* the updates of the physics world made, and the pairs and
                    \* callbacks of the collision pass of the last one
  physicsWorld,     \* the fields of the PhysicsWorld
  worldLog          \* the time handed to PhysicsWorld.update so far, the steps
                    \* made so far, and the steps of the last update

vars == <<state, score, lives, level, ballLostTimeout, timers, balls, paddles, am,
          reachBottomCalls, calls, objects, pass, physicsWorld, worldLog>>

----------------------------------------------------------------------------
(* Bounds of the model *)

\* rows of the formations the model explores (the program builds 5)
Rows == 1
\* columns of the formations the model explores (the program builds 9)
Columns == 1
\* levels above MaxLevel are not explored
MaxLevel == 2
\* frames are not explored once an alive alien is more than MaxSunk world
\* units below the aliens' bottom boundary (the swarm sinks without end)
MaxSunk == 1
\* the physics world's own specification registers at most MaxBodies bodies
MaxBodies == 3
\* and makes at most MaxUpdates updates of a world
MaxUpdates == 2
\* in the swarm's own specification a formation of at most FreeHits aliens
\* moves and is hit in any order; a larger one stands where it was built and
\* is hit from its first alien to its last, one alien at a time
FreeHits == 4
\* the swarm's own specification explores no frame once an alive alien is
\* SwarmDepth world units below the place it was built at
SwarmDepth == 1

----------------------------------------------------------------------------
(* Fixed-point resolutions *)

PU == 2 * 1000     \* length units per world unit
TU == 2 * 100      \* time units per second
VU == 10 * 10      \* velocity units per world unit per second
NU == 10 * 100     \* resolution of a unit vector's components

\* the frame times clock.getDelta() hands to update: a long frame of 1.1 s,
\* in which the swarm takes a step and a free ball travels 8.8 world units
DeltaTimes == {(11 * TU) \div 10}
\* the x components Math.random() gives a released ball
ReleaseVX == {0}

Abs(a) == IF a < 0 THEN -a ELSE a
Min(a, b) == IF a < b THEN a ELSE b
Max(a, b) == IF a > b THEN a ELSE b
\* a / b rounded toward zero (b > 0)
Div(a, b) == IF a >= 0 THEN a \div b ELSE -((-a) \div b)

RECURSIVE SqrtIter(_, _)
SqrtIter(n, x) ==
  LET y == (x + n \div x) \div 2
  IN  IF y >= x THEN x ELSE SqrtIter(n, y)
\* Math.sqrt, rounded down
Sqrt(n) == IF n <= 0 THEN 0 ELSE SqrtIter(n, n)

Vec(x, y, z) == [x |-> x, y |-> y, z |-> z]
\* THREE.Vector3.length, rounded down
Length(v) == Sqrt(v.x * v.x + v.y * v.y + v.z * v.z)
\* THREE.Vector3.normalize: v / (length || 1), components in 1/NU
Normalize(v) ==
  LET len == Length(v)
  IN  IF len = 0 THEN Vec(0, 0, 0)
      ELSE Vec(Div(v.x * NU, len), Div(v.y * NU, len), Div(v.z * NU, len))
\* velocity . normal, in velocity units
Dot(v, n) == Div(v.x * n.x + v.y * n.y + v.z * n.z, NU)
\* v - 2 (v . n) n
Reflect(v, n) ==
  LET dot == Dot(v, n)
  IN  Vec(v.x - Div(2 * dot * n.x, NU), v.y - Div(2 * dot * n.y, NU),
          v.z - Div(2 * dot * n.z, NU))
\* the displacement of velocity v over the time dt, in length units
Travel(v, dt) == Div(v * dt, (VU * TU) \div PU)

----------------------------------------------------------------------------
(* Configuration *)

\* config.worldSize: the width and depth of the playfield, taken as 20 world
\* units (the configuration file is not among the sources)
worldSize == 20 * PU
\* PlayState.worldBounds
worldBounds ==
  [minX |-> -(worldSize \div 2), maxX |-> worldSize \div 2,
   minY |-> 0, maxY |-> 30 * PU,
   minZ |-> -(worldSize \div 2), maxZ |-> worldSize \div 2]
\* PlayState.bottomBoundary
bottomBoundary == PU \div 2
\* the radius createBall gives the ball
ballRadius == (4 * PU) \div 10
\* the size createPaddle gives the paddle
paddleSize == [width |-> 4 * PU, height |-> PU \div 2, depth |-> PU]
\* Paddle.speed, in length units per time unit
paddleSpeed == (15 * PU) \div TU
\* Ball.maxSpeed
maxSpeed == 20 * VU
\* minYSpeed of Ball.preventHorizontalStalemate
minYSpeed == 2 * VU
\* the delay of the ball-lost timeout is not modelled as a duration: a
\* scheduled timeout fires at any later moment
NoTimeout == {}

----------------------------------------------------------------------------
(* Ball *)

\* Ball.attachToPaddle
attachToPaddle(b, paddlePosition, pSize) ==
  [b EXCEPT !.isAttachedToPaddle = TRUE,
            !.position = Vec(paddlePosition.x,
                             paddlePosition.y + pSize.height \div 2 + b.radius,
                             paddlePosition.z),
            !.velocity = Vec(0, 0, 0)]

\* Ball.reset
BallReset(b, position) ==
  [b EXCEPT !.position = position, !.isAttachedToPaddle = TRUE,
            !.velocity = Vec(0, 0, 0)]

\* new Ball(...)
NewBall(radius, position) ==
  [position |-> position, velocity |-> Vec(0, 0, 0), radius |-> radius,
   isAttachedToPaddle |-> TRUE]

\* releaseBall without its test of isAttachedToPaddle
BallReleaseAlways(b, vx) ==
  [b EXCEPT !.isAttachedToPaddle = FALSE, !.velocity = Vec(vx, 8 * VU, 0)]

\* Ball.releaseBall, vx the random x component
BallRelease(b, vx) ==
  IF ~b.isAttachedToPaddle THEN b
  ELSE [b EXCEPT !.isAttachedToPaddle = FALSE, !.velocity = Vec(vx, 8 * VU, 0)]

\* Ball.enforceMaxSpeed
enforceMaxSpeed(b) ==
  LET v == b.velocity
      speed == Length(v)
  IN  IF v.x * v.x + v.y * v.y + v.z * v.z > maxSpeed * maxSpeed
      THEN [b EXCEPT !.velocity = Vec(Div(v.x * maxSpeed, speed),
                                      Div(v.y * maxSpeed, speed),
                                      Div(v.z * maxSpeed, speed))]
      ELSE b

\* Ball.preventHorizontalStalemate
preventHorizontalStalemate(b) ==
  IF Abs(b.velocity.y) < minYSpeed
  THEN [b EXCEPT !.velocity.y = IF b.velocity.y < 0 THEN -minYSpeed ELSE minYSpeed]
  ELSE b

\* Ball.update
BallUpdate(b, dt) ==
  IF b.isAttachedToPaddle THEN b
  ELSE LET moved == [b EXCEPT !.position =
                        Vec(b.position.x + Travel(b.velocity.x, dt),
                            b.position.y + Travel(b.velocity.y, dt),
                            b.position.z + Travel(b.velocity.z, dt))]
       IN  preventHorizontalStalemate(enforceMaxSpeed(moved))

----------------------------------------------------------------------------
(* Paddle *)

\* new Paddle(...)
NewPaddle(size, position) ==
  [position |-> position, velocity |-> Vec(0, 0, 0), size |-> size,
   targetPosition |-> position.x,
   isLeftPressed |-> FALSE, isRightPressed |-> FALSE,
   boundaries |-> [min |-> -(worldSize \div 2) + size.width \div 2,
                   max |-> worldSize \div 2 - size.width \div 2]]

\* Paddle.update without the clamp to the boundaries
PaddleUpdateUnclamped(p, dt) ==
  LET t1 == IF p.isLeftPressed THEN p.targetPosition - paddleSpeed * dt
            ELSE p.targetPosition
      t2 == IF p.isRightPressed THEN t1 + paddleSpeed * dt ELSE t1
  IN  [p EXCEPT !.targetPosition = t2, !.position.x = t2]

\* Paddle.update
PaddleUpdate(p, dt) ==
  LET t1 == IF p.isLeftPressed THEN p.targetPosition - paddleSpeed * dt
            ELSE p.targetPosition
      t2 == IF p.isRightPressed THEN t1 + paddleSpeed * dt ELSE t1
      t3 == Max(p.boundaries.min, Min(t2, p.boundaries.max))
  IN  [p EXCEPT !.targetPosition = t3, !.position.x = t3]

\* Paddle.reset
PaddleReset(p, position) ==
  [p EXCEPT !.targetPosition = position.x, !.position = position,
            !.isLeftPressed = FALSE, !.isRightPressed = FALSE]

----------------------------------------------------------------------------
(* Ball against box (PlayState) *)

\* the closest point of the box to the ball's centre
Closest(ballPos, boxPos, boxSize) ==
  Vec(Max(boxPos.x - boxSize.width \div 2, Min(ballPos.x, boxPos.x + boxSize.width \div 2)),
      Max(boxPos.y - boxSize.height \div 2, Min(ballPos.y, boxPos.y + boxSize.height \div 2)),
      Max(boxPos.z - boxSize.depth \div 2, Min(ballPos.z, boxPos.z + boxSize.depth \div 2)))

Sub(a, b) == Vec(a.x - b.x, a.y - b.y, a.z - b.z)

\* |d| < r, the squares taken only of components below r
Shorter(d, r) ==
  /\ Abs(d.x) < r /\ Abs(d.y) < r /\ Abs(d.z) < r
  /\ d.x * d.x + d.y * d.y + d.z * d.z < r * r

\* PlayState.ballVsBox
ballVsBox(ballPos, radius, boxPos, boxSize) ==
  Shorter(Sub(ballPos, Closest(ballPos, boxPos, boxSize)), radius)

\* PlayState.resolveBallBoxCollision (called only when ballVsBox holds)
resolveBallBoxCollision(b, boxPos, boxSize) ==
  LET d == Sub(b.position, Closest(b.position, boxPos, boxSize))
      normal == Normalize(d)
      penetration == b.radius - Length(d)
      reflected == [b EXCEPT !.velocity = Reflect(b.velocity, normal)]
  IN  IF penetration > 0
      THEN [reflected EXCEPT !.position =
              Vec(b.position.x + Div(normal.x * penetration, NU),
                  b.position.y + Div(normal.y * penetration, NU),
                  b.position.z + Div(normal.z * penetration, NU))]
      ELSE reflected

----------------------------------------------------------------------------
(* Alien and AlienManager *)

\* AlienManager.horizontalSpacing
horizontalSpacing == 2 * PU
\* AlienManager.verticalSpacing
verticalSpacing == (3 * PU) \div 2
\* startY of createAlienFormation
startY == 15 * PU
\* startZ of createAlienFormation
startZ == -5 * PU
\* the bottom boundary PlayState.createAlienManager hands to the AlienManager
alienBottomBoundary == bottomBoundary + PU
\* AlienManager.worldBounds
swarmBounds == [min |-> -(worldSize \div 2) + (3 * PU) \div 2,
                max |-> worldSize \div 2 - (3 * PU) \div 2]
\* minInterval of increaseSpeed
minInterval == TU \div 5

\* the type createAlienFormation gives the aliens of a row
TypeOfRow(row) == IF row = 0 THEN "small" ELSE IF row < 3 THEN "medium" ELSE "large"
\* the size createAlienFormation gives an alien of a type
SizeOfType(type) ==
  CASE type = "small"  -> [width |-> PU, height |-> (8 * PU) \div 10, depth |-> PU]
    [] type = "medium" -> [width |-> (13 * PU) \div 10, height |-> (6 * PU) \div 10,
                           depth |-> (13 * PU) \div 10]
    [] type = "large"  -> [width |-> (15 * PU) \div 10, height |-> PU,
                           depth |-> (15 * PU) \div 10]
\* the points the Alien constructor gives an alien of a type
PointsOfType(type) ==
  CASE type = "small" -> 30 [] type = "large" -> 10 [] OTHER -> 20

\* the hover of an alien around its initialY: Alien.hoverAmplitude
hoverAmplitude == PU \div 5

\* new Alien(...): y is Alien.initialY, the height hasReachedBottom tests and
\* moveDown lowers; hoverY is the offset of the body from it, so that the
\* body is at (x, y + hoverY, z)
NewAlien(x, y, z, type) ==
  [x |-> x, y |-> y, hoverY |-> 0, z |-> z, type |-> type,
   size |-> SizeOfType(type), points |-> PointsOfType(type),
   isDestroyed |-> FALSE]

\* Alien.translation: the position of the body
alienTranslation(alien) == Vec(alien.x, alien.y + alien.hoverY, alien.z)

\* Alien.update: the body of an alien that is not destroyed is put at
\* initialY + hoverY, hoverY the value of the sine at the time of the frame
alienUpdate(alien, hoverY) ==
  IF alien.isDestroyed THEN alien ELSE [alien EXCEPT !.hoverY = hoverY]

\* AlienManager.createAlienFormation: rows x columns aliens, row by row
createAlienFormation(rows, columns) ==
  LET startX == -(((columns - 1) * horizontalSpacing) \div 2)
  IN  [k \in 1..(rows * columns) |->
         LET row == (k - 1) \div columns
             col == (k - 1) % columns
         IN  NewAlien(startX + col * horizontalSpacing,
                      startY - row * verticalSpacing, startZ, TypeOfRow(row))]

\* Alien.hasReachedBottom
alienHasReachedBottom(alien, bottomY) == alien.y <= bottomY

\* Alien.destroy
alienDestroy(alien) ==
  IF alien.isDestroyed THEN alien ELSE [alien EXCEPT !.isDestroyed = TRUE]

\* Alien.moveDown
alienMoveDown(alien, amount) == [alien EXCEPT !.y = @ - amount, !.hoverY = 0]

\* new AlienManager(...), with the rows and columns of its formation
AlienManagerOf(rows, columns) ==
  [rows |-> rows,
   columns |-> columns,
   aliens |-> createAlienFormation(rows, columns),
   horizontalSpeed |-> (15 * PU) \div 10,
   moveDownAmount |-> PU \div 2,
   currentDirection |-> "right",
   moveTimer |-> 0,
   moveInterval |-> TU,
   speedIncreasePerAlien |-> (25 * TU) \div 1000,
   hasReachedBottom |-> FALSE]

\* the AlienManager of the session
NewAlienManager == AlienManagerOf(Rows, Columns)

Alive(a) == {i \in 1..Len(a.aliens) : ~a.aliens[i].isDestroyed}

\* AlienManager.getAliveCount
getAliveCount(a) == Cardinality(Alive(a))

\* AlienManager.areAllDestroyed
areAllDestroyed(a) == getAliveCount(a) = 0

\* the edge alien of moveSwarm: the first alive alien with the greatest x
\* (moving right) or the least x (moving left); 0 when no alien is alive
EdgeAlien(a) ==
  LET alive == Alive(a)
      extreme(i) == \A j \in alive :
                      IF a.currentDirection = "right"
                      THEN a.aliens[j].x <= a.aliens[i].x
                      ELSE a.aliens[j].x >= a.aliens[i].x
  IN  IF alive = {} THEN 0
      ELSE CHOOSE i \in alive : extreme(i) /\ \A j \in alive : extreme(j) => i <= j

\* moveSwarm that tests the centre of the edge alien, without its half width
moveSwarmByCentre(a) ==
  LET movementDistance == (a.horizontalSpeed * a.moveInterval) \div TU
      e == EdgeAlien(a)
      turnLeft == /\ e # 0
                  /\ a.currentDirection = "right"
                  /\ a.aliens[e].x + movementDistance > swarmBounds.max
      turnRight == /\ e # 0
                   /\ ~turnLeft
                   /\ a.currentDirection = "left"
                   /\ a.aliens[e].x - movementDistance < swarmBounds.min
      shouldMoveDown == turnLeft \/ turnRight
      direction == IF turnLeft THEN "left"
                   ELSE IF turnRight THEN "right" ELSE a.currentDirection
      movement == IF direction = "right" THEN movementDistance ELSE -movementDistance
      step(alien) ==
        IF alien.isDestroyed THEN alien
        ELSE LET sideways == [alien EXCEPT !.x = @ + movement]
             IN  IF shouldMoveDown THEN alienMoveDown(sideways, a.moveDownAmount)
                 ELSE sideways
  IN  [a EXCEPT !.currentDirection = direction,
                !.aliens = [i \in 1..Len(a.aliens) |-> step(a.aliens[i])]]

\* AlienManager.moveSwarm
moveSwarm(a) ==
  LET movementDistance == (a.horizontalSpeed * a.moveInterval) \div TU
      e == EdgeAlien(a)
      turnLeft == /\ e # 0
                  /\ a.currentDirection = "right"
                  /\ a.aliens[e].x + a.aliens[e].size.width \div 2 + movementDistance
                       > swarmBounds.max
      turnRight == /\ e # 0
                   /\ ~turnLeft
                   /\ a.currentDirection = "left"
                   /\ a.aliens[e].x - a.aliens[e].size.width \div 2 - movementDistance
                        < swarmBounds.min
      shouldMoveDown == turnLeft \/ turnRight
      direction == IF turnLeft THEN "left"
                   ELSE IF turnRight THEN "right" ELSE a.currentDirection
      movement == IF direction = "right" THEN movementDistance ELSE -movementDistance
      step(alien) ==
        IF alien.isDestroyed THEN alien
        ELSE LET sideways == [alien EXCEPT !.x = @ + movement]
             IN  IF shouldMoveDown THEN alienMoveDown(sideways, a.moveDownAmount)
                 ELSE sideways
  IN  [a EXCEPT !.currentDirection = direction,
                !.aliens = [i \in 1..Len(a.aliens) |-> step(a.aliens[i])]]

\* increaseSpeed that counts the alive aliens, not the destroyed ones
increaseSpeedByAlive(a) ==
  LET speedIncrease == getAliveCount(a) * a.speedIncreasePerAlien
  IN  [a EXCEPT !.moveInterval = Max(TU - speedIncrease, minInterval)]

\* AlienManager.increaseSpeed
increaseSpeed(a) ==
  LET totalCount == a.rows * a.columns
      destroyedCount == totalCount - getAliveCount(a)
      speedIncrease == destroyedCount * a.speedIncreasePerAlien
  IN  [a EXCEPT !.moveInterval = Max(TU - speedIncrease, minInterval)]

\* the body of the forEach without the test of isDestroyed
CollideAlienAgain(c, i) ==
  LET alien == c.am.aliens[i]
      ball == c.ball
      alienPos == alienTranslation(alien)
      d == Vec(ball.position.x - alienPos.x, ball.position.y - alienPos.y, 0)
      normal == Normalize(d)
      reflected == Reflect(ball.velocity, normal)
      boosted == Vec(Div(reflected.x * 105, 100), Div(reflected.y * 105, 100),
                     Div(reflected.z * 105, 100))
  IN  IF Shorter(d, ball.radius + alien.size.width \div 2)
      THEN [am |-> increaseSpeed([c.am EXCEPT !.aliens[i] = alienDestroy(alien)]),
            ball |-> [ball EXCEPT !.velocity = boosted],
            points |-> c.points + alien.points]
      ELSE c

\* the body of the forEach of AlienManager.checkCollisions for alien i;
\* c is [am, ball, points]
CollideAlien(c, i) ==
  LET alien == c.am.aliens[i]
      ball == c.ball
      alienPos == alienTranslation(alien)
      d == Vec(ball.position.x - alienPos.x, ball.position.y - alienPos.y, 0)
      normal == Normalize(d)
      reflected == Reflect(ball.velocity, normal)
      boosted == Vec(Div(reflected.x * 105, 100), Div(reflected.y * 105, 100),
                     Div(reflected.z * 105, 100))
  IN  IF ~alien.isDestroyed /\ Shorter(d, ball.radius + alien.size.width \div 2)
      THEN [am |-> increaseSpeed([c.am EXCEPT !.aliens[i] = alienDestroy(alien)]),
            ball |-> [ball EXCEPT !.velocity = boosted],
            points |-> c.points + alien.points]
      ELSE c

RECURSIVE CollideFrom(_, _)
CollideFrom(c, i) ==
  IF i > Len(c.am.aliens) THEN c ELSE CollideFrom(CollideAlien(c, i), i + 1)

\* AlienManager.checkCollisions: the manager, the ball and the points scored
checkCollisions(a, ball) == CollideFrom([am |-> a, ball |-> ball, points |-> 0], 1)

\* reset that leaves moveInterval and the direction as they are
AlienManagerResetKeepsPace(a) ==
  [a EXCEPT !.aliens = createAlienFormation(a.rows, a.columns),
            !.moveTimer = 0,
            !.hasReachedBottom = FALSE]

\* AlienManager.reset
AlienManagerReset(a) ==
  [a EXCEPT !.aliens = createAlienFormation(a.rows, a.columns),
            !.moveTimer = 0,
            !.currentDirection = "right",
            !.moveInterval = TU,
            !.hasReachedBottom = FALSE]

\* setDifficulty that raises the sideways speed only
setDifficultySpeedOnly(a, lvl) ==
  [a EXCEPT !.horizontalSpeed = (15 * PU) \div 10 + (lvl - 1) * ((3 * PU) \div 10)]

\* AlienManager.setDifficulty
setDifficulty(a, lvl) ==
  [a EXCEPT !.horizontalSpeed = (15 * PU) \div 10 + (lvl - 1) * ((3 * PU) \div 10),
            !.moveDownAmount = PU \div 2 + (lvl - 1) * (PU \div 10),
            !.speedIncreasePerAlien = (25 * TU) \div 1000 + (lvl - 1) * ((5 * TU) \div 1000)]

----------------------------------------------------------------------------
(* PlayState: the methods, as functions of the session g *)

\* the session as one record
Session ==
  [state |-> state, score |-> score, lives |-> lives, level |-> level,
   ballLostTimeout |-> ballLostTimeout, timers |-> timers,
   balls |-> balls, paddles |-> paddles, am |-> am,
   reachBottomCalls |-> reachBottomCalls, calls |-> {}]

\* no update of a physics world made
NoPass == [updates |-> 0, pairs |-> <<>>, callbacks |-> <<>>]

\* the PhysicsWorld constructor
NewPhysicsWorld ==
  [accumulatedTime |-> 0, bodies |-> <<>>, collisionHandlers |-> {},
   eventQueue |-> <<>>]

\* no update of the PhysicsWorld made
NoWorldLog == [elapsed |-> 0, steps |-> 0, last |-> <<>>]

\* the variables take the fields of g; the session keeps no physics world
Becomes(g) ==
  /\ state' = g.state
  /\ score' = g.score
  /\ lives' = g.lives
  /\ level' = g.level
  /\ ballLostTimeout' = g.ballLostTimeout
  /\ timers' = g.timers
  /\ balls' = g.balls
  /\ paddles' = g.paddles
  /\ am' = g.am
  /\ reachBottomCalls' = g.reachBottomCalls
  /\ calls' = g.calls
  /\ UNCHANGED <<objects, pass, physicsWorld, worldLog>>

Called(g, name) == [g EXCEPT !.calls = @ \cup {name}]

\* the position resetGame, levelComplete and ballLost reset the ball to
ballStart == Vec(0, bottomBoundary + 2 * PU, 0)
\* the position createPaddle and resetGame give the paddle
paddleStart == Vec(0, bottomBoundary, 0)

\* PlayState.createPaddle
createPaddle == NewPaddle(paddleSize, paddleStart)

\* PlayState.createBall, with the paddles of the moment
createBall(pads) ==
  LET ball == NewBall(ballRadius, ballStart)
  IN  IF Len(pads) > 0 THEN attachToPaddle(ball, pads[1].position, pads[1].size)
      ELSE ball

\* ball.reset(position) followed by the attachToPaddle guarded by paddles.length > 0
ResetOnPaddle(b, pads) ==
  LET r == BallReset(b, ballStart)
  IN  IF Len(pads) > 0 THEN attachToPaddle(r, pads[1].position, pads[1].size) ELSE r

\* the handle window.setTimeout returns: one no scheduled timeout has
NewHandle(scheduled) ==
  CHOOSE n \in 1..(Cardinality(scheduled) + 1) :
    n \notin scheduled /\ \A m \in 1..(n - 1) : m \in scheduled

\* alienManager.reset() as the session calls it: the formation's callback
\* count starts again
SwarmReset(g) == [g EXCEPT !.am = AlienManagerReset(g.am), !.reachBottomCalls = 0]

\* PlayState.gameOver
gameOver(g) == Called([g EXCEPT !.state = "GAME_OVER"], "gameOver")

\* the callback the constructor hands to setOnReachBottomCallback
onReachBottom(g) ==
  LET h == Called([g EXCEPT !.reachBottomCalls = @ + 1], "onReachBottom")
  IN  IF h.state = "PLAYING" THEN gameOver(h) ELSE h

\* checkBottomReached without the test of the latch
checkBottomReachedUnlatched(g) ==
  IF \E i \in Alive(g.am) : alienHasReachedBottom(g.am.aliens[i], alienBottomBoundary)
  THEN onReachBottom([g EXCEPT !.am.hasReachedBottom = TRUE])
  ELSE g

\* AlienManager.checkBottomReached
checkBottomReached(g) ==
  IF g.am.hasReachedBottom THEN g
  ELSE IF \E i \in Alive(g.am) : alienHasReachedBottom(g.am.aliens[i], alienBottomBoundary)
       THEN onReachBottom([g EXCEPT !.am.hasReachedBottom = TRUE])
       ELSE g

\* AlienManager.update with a timer that keeps what exceeds the interval
AlienManagerUpdateKeepingRest(g, dt, hover) ==
  LET hovered == [g.am EXCEPT !.aliens = [i \in 1..Len(g.am.aliens) |->
                                            alienUpdate(g.am.aliens[i], hover[i])]]
      timer == hovered.moveTimer + dt
      stepped == IF timer >= hovered.moveInterval
                 THEN moveSwarm([hovered EXCEPT
                                   !.moveTimer = timer - hovered.moveInterval])
                 ELSE [hovered EXCEPT !.moveTimer = timer]
  IN  checkBottomReached([g EXCEPT !.am = stepped])

\* AlienManager.update that steps the swarm as soon as the timer reaches the
\* least interval, whatever the interval in force
AlienManagerUpdateEarly(g, dt, hover) ==
  LET hovered == [g.am EXCEPT !.aliens = [i \in 1..Len(g.am.aliens) |->
                                            alienUpdate(g.am.aliens[i], hover[i])]]
      timer == hovered.moveTimer + dt
      stepped == IF timer >= minInterval
                 THEN moveSwarm([hovered EXCEPT !.moveTimer = 0])
                 ELSE [hovered EXCEPT !.moveTimer = timer]
  IN  checkBottomReached([g EXCEPT !.am = stepped])

\* AlienManager.update in a frame whose time gives alien i the hover
\* hover[i]
AlienManagerUpdateAt(g, dt, hover) ==
  LET hovered == [g.am EXCEPT !.aliens = [i \in 1..Len(g.am.aliens) |->
                                            alienUpdate(g.am.aliens[i], hover[i])]]
      timer == hovered.moveTimer + dt
      stepped == IF timer >= hovered.moveInterval
                 THEN moveSwarm([hovered EXCEPT !.moveTimer = 0])
                 ELSE [hovered EXCEPT !.moveTimer = timer]
  IN  checkBottomReached([g EXCEPT !.am = stepped])

\* the hover of a frame that finds every alien at its initialY
AtRest(a) == [i \in 1..Len(a.aliens) |-> 0]

\* AlienManager.update in a frame that finds every alien at its initialY
AlienManagerUpdate(g, dt) == AlienManagerUpdateAt(g, dt, AtRest(g.am))

\* PlayState.startGame
startGame(g) == Called([SwarmReset(g) EXCEPT !.state = "PLAYING"], "startGame")

\* PlayState.togglePause
togglePause(g) ==
  IF g.state = "PLAYING" THEN [g EXCEPT !.state = "PAUSED"]
  ELSE IF g.state = "PAUSED" THEN [g EXCEPT !.state = "PLAYING"]
  ELSE g

\* ballLost with the latch test left out
ballLostUnlatched(g, i) ==
  LET g1 == Called([g EXCEPT !.lives = @ - 1], "ballLost")
      handle == NewHandle(g.timers)
  IN  IF g1.lives <= 0 THEN gameOver(g1)
      ELSE [g1 EXCEPT !.balls[i] = ResetOnPaddle(@, g.paddles),
                      !.state = "READY",
                      !.timers = @ \cup {handle},
                      !.ballLostTimeout = {handle}]

\* ballLost that ends the game only below zero lives
ballLostBelowZero(g, i) ==
  IF g.ballLostTimeout # NoTimeout THEN Called(g, "ballLostIgnored")
  ELSE LET g1 == Called([g EXCEPT !.lives = @ - 1], "ballLost")
           handle == NewHandle(g.timers)
       IN  IF g1.lives < 0 THEN gameOver(g1)
           ELSE [g1 EXCEPT !.balls[i] = ResetOnPaddle(@, g.paddles),
                           !.state = "READY",
                           !.timers = @ \cup {handle},
                           !.ballLostTimeout = {handle}]

\* PlayState.ballLost for ball i
ballLost(g, i) ==
  IF g.ballLostTimeout # NoTimeout THEN Called(g, "ballLostIgnored")
  ELSE LET g1 == Called([g EXCEPT !.lives = @ - 1], "ballLost")
           handle == NewHandle(g.timers)
       IN  IF g1.lives <= 0 THEN gameOver(g1)
           ELSE [g1 EXCEPT !.balls[i] = ResetOnPaddle(@, g.paddles),
                           !.state = "READY",
                           !.timers = @ \cup {handle},
                           !.ballLostTimeout = {handle}]

\* the callback without the assignment that clears the latch
ballLostCallbackKeepsLatch(g) == Called([g EXCEPT !.state = "PLAYING"], "timeout")

\* the callback ballLost hands to window.setTimeout
ballLostCallback(g) ==
  Called([g EXCEPT !.state = "PLAYING", !.ballLostTimeout = NoTimeout], "timeout")

\* levelComplete without the call of setDifficulty
levelCompleteSameDifficulty(g) ==
  LET g1 == Called([g EXCEPT !.state = "LEVEL_COMPLETE", !.level = @ + 1],
                   "levelComplete")
      g2 == SwarmReset(g1)
  IN  [g2 EXCEPT !.balls = [k \in 1..Len(g.balls) |-> ResetOnPaddle(g.balls[k], g.paddles)]]

\* PlayState.levelComplete
levelComplete(g) ==
  LET g1 == Called([g EXCEPT !.state = "LEVEL_COMPLETE", !.level = @ + 1],
                   "levelComplete")
      g2 == SwarmReset(g1)
      g3 == [g2 EXCEPT !.am = setDifficulty(@, g1.level)]
  IN  [g3 EXCEPT !.balls = [k \in 1..Len(g.balls) |-> ResetOnPaddle(g.balls[k], g.paddles)]]

\* resetGame without the assignment to level
resetGameKeepsLevel(g) ==
  LET pads == [k \in 1..Len(g.paddles) |-> PaddleReset(g.paddles[k], paddleStart)]
      g1 == [g EXCEPT !.score = 0, !.lives = 3, !.paddles = pads,
                      !.balls = [k \in 1..Len(g.balls) |-> ResetOnPaddle(g.balls[k], pads)]]
      g2 == SwarmReset(g1)
      g3 == [g2 EXCEPT !.am = setDifficulty(@, g1.level)]
      g4 == [g3 EXCEPT !.balls = <<createBall(g3.paddles)>>]
  IN  Called([g4 EXCEPT !.paddles = <<createPaddle>>, !.state = "READY"], "resetGame")

\* resetGame without the assignment of the lives
resetGameKeepsLives(g) ==
  LET pads == [k \in 1..Len(g.paddles) |-> PaddleReset(g.paddles[k], paddleStart)]
      g1 == [g EXCEPT !.score = 0, !.level = 1, !.paddles = pads,
                      !.balls = [k \in 1..Len(g.balls) |-> ResetOnPaddle(g.balls[k], pads)]]
      g2 == SwarmReset(g1)
      g3 == [g2 EXCEPT !.am = setDifficulty(@, g1.level)]
      g4 == [g3 EXCEPT !.balls = <<createBall(g3.paddles)>>]
  IN  Called([g4 EXCEPT !.paddles = <<createPaddle>>, !.state = "READY"], "resetGame")

\* PlayState.resetGame
resetGame(g) ==
  LET pads == [k \in 1..Len(g.paddles) |-> PaddleReset(g.paddles[k], paddleStart)]
      g1 == [g EXCEPT !.score = 0, !.lives = 3, !.level = 1, !.paddles = pads,
                      !.balls = [k \in 1..Len(g.balls) |-> ResetOnPaddle(g.balls[k], pads)]]
      g2 == SwarmReset(g1)
      g3 == [g2 EXCEPT !.am = setDifficulty(@, g1.level)]
      g4 == [g3 EXCEPT !.balls = <<createBall(g3.paddles)>>]
  IN  Called([g4 EXCEPT !.paddles = <<createPaddle>>, !.state = "READY"], "resetGame")

\* PlayState.addScore
addScore(g, points) == [g EXCEPT !.score = @ + points]

\* dispose that forgets the timeout without clearing it
disposeForgetting(g) == Called([g EXCEPT !.ballLostTimeout = NoTimeout], "dispose")

\* PlayState.dispose, reached through onExit: the pending timeout is cleared
dispose(g) ==
  Called(IF g.ballLostTimeout # NoTimeout
         THEN [g EXCEPT !.timers = @ \ g.ballLostTimeout, !.ballLostTimeout = NoTimeout]
         ELSE g,
         "dispose")

\* the first attached ball, 0 when there is none
FirstAttached(bs) ==
  IF \E k \in 1..Len(bs) : bs[k].isAttachedToPaddle
  THEN CHOOSE k \in 1..Len(bs) :
         bs[k].isAttachedToPaddle /\ \A j \in 1..(k - 1) : ~bs[j].isAttachedToPaddle
  ELSE 0

\* PlayState.releaseBall, vx the random x component of Ball.releaseBall
releaseBall(g, vx) ==
  LET k == FirstAttached(g.balls)
  IN  IF k = 0 THEN Called(g, "releaseBall")
      ELSE Called([g EXCEPT !.balls[k] = BallRelease(@, vx)], "releaseBall")

\* the paddle loop of update for one ball: detect and resolve against each paddle
RECURSIVE PaddleCollisions(_, _, _)
PaddleCollisions(b, pads, k) ==
  IF k > Len(pads) THEN b
  ELSE PaddleCollisions(
         IF ballVsBox(b.position, b.radius, pads[k].position, pads[k].size)
         THEN resolveBallBoxCollision(b, pads[k].position, pads[k].size)
         ELSE b,
         pads, k + 1)

\* world-bounds handling that puts the ball back on the wall, without its radius
WorldBoundsAtWall(b) ==
  LET r == b.radius
      p == b.position
      v == b.velocity
      lowX == p.x - r < worldBounds.minX
      highX == ~lowX /\ p.x + r > worldBounds.maxX
      lowY == p.y - r < worldBounds.minY
      highY == ~lowY /\ p.y + r > worldBounds.maxY
      lowZ == p.z - r < worldBounds.minZ
      highZ == ~lowZ /\ p.z + r > worldBounds.maxZ
  IN  [b EXCEPT
        !.position = Vec(IF lowX THEN worldBounds.minX
                         ELSE IF highX THEN worldBounds.maxX ELSE p.x,
                         IF lowY THEN worldBounds.minY
                         ELSE IF highY THEN worldBounds.maxY ELSE p.y,
                         IF lowZ THEN worldBounds.minZ
                         ELSE IF highZ THEN worldBounds.maxZ ELSE p.z),
        !.velocity = Vec(IF lowX \/ highX THEN -v.x ELSE v.x,
                         IF lowY \/ highY THEN -v.y ELSE v.y,
                         IF lowZ \/ highZ THEN -v.z ELSE v.z)]

\* the world-bounds handling at the end of the ball loop of update
WorldBounds(b) ==
  LET r == b.radius
      p == b.position
      v == b.velocity
      lowX == p.x - r < worldBounds.minX
      highX == ~lowX /\ p.x + r > worldBounds.maxX
      lowY == p.y - r < worldBounds.minY
      highY == ~lowY /\ p.y + r > worldBounds.maxY
      lowZ == p.z - r < worldBounds.minZ
      highZ == ~lowZ /\ p.z + r > worldBounds.maxZ
  IN  [b EXCEPT
        !.position = Vec(IF lowX THEN worldBounds.minX + r
                         ELSE IF highX THEN worldBounds.maxX - r ELSE p.x,
                         IF lowY THEN worldBounds.minY + r
                         ELSE IF highY THEN worldBounds.maxY - r ELSE p.y,
                         IF lowZ THEN worldBounds.minZ + r
                         ELSE IF highZ THEN worldBounds.maxZ - r ELSE p.z),
        !.velocity = Vec(IF lowX \/ highX THEN -v.x ELSE v.x,
                         IF lowY \/ highY THEN -v.y ELSE v.y,
                         IF lowZ \/ highZ THEN -v.z ELSE v.z)]

\* the alien part of the ball loop of update for ball i, found at b: the
\* collision pass, the points and the level-complete test
CollideAndScore(g, i, b) ==
  LET c == checkCollisions(g.am, b)
      g1 == [g EXCEPT !.balls[i] = c.ball, !.am = c.am]
      g2 == IF c.points > 0 THEN addScore(g1, c.points) ELSE g1
  IN  IF areAllDestroyed(g2.am) THEN levelComplete(g2) ELSE g2

\* the ball loop with the ball lost as soon as it is below bottomBoundary
UpdateBallLostAtBoundary(g, i, dt) ==
  LET b1 == BallUpdate(g.balls[i], dt)
  IN  IF b1.isAttachedToPaddle THEN [g EXCEPT !.balls[i] = b1]
      ELSE
        LET b2 == PaddleCollisions(b1, g.paddles, 1)
            g3 == CollideAndScore(g, i, b2)
            g4 == IF g3.balls[i].position.y < bottomBoundary
                  THEN ballLost(g3, i) ELSE g3
        IN  [g4 EXCEPT !.balls[i] = WorldBounds(@)]

\* the body of the ball loop of update for ball i
UpdateBall(g, i, dt) ==
  LET b1 == BallUpdate(g.balls[i], dt)
  IN  IF b1.isAttachedToPaddle THEN [g EXCEPT !.balls[i] = b1]
      ELSE
        LET b2 == PaddleCollisions(b1, g.paddles, 1)
            g3 == CollideAndScore(g, i, b2)
            g4 == IF g3.balls[i].position.y < bottomBoundary - 3 * PU
                  THEN ballLost(g3, i) ELSE g3
        IN  [g4 EXCEPT !.balls[i] = WorldBounds(@)]

RECURSIVE UpdateBalls(_, _, _)
UpdateBalls(g, i, dt) ==
  IF i > Len(g.balls) THEN g ELSE UpdateBalls(UpdateBall(g, i, dt), i + 1, dt)

\* update in which a paddle met by the ball takes the ball's velocity and is
\* pushed back by it
updateShovingPaddle(g, dt) ==
  IF g.state # "PLAYING" THEN AlienManagerUpdate(g, dt)
  ELSE LET g1 == AlienManagerUpdate(g, dt)
           g2 == [g1 EXCEPT !.paddles =
                    [k \in 1..Len(g1.paddles) |-> PaddleUpdate(g1.paddles[k], dt)]]
           g3 == UpdateBalls(g2, 1, dt)
           met(k) == \E i \in 1..Len(g2.balls) :
                       /\ ~g2.balls[i].isAttachedToPaddle
                       /\ ballVsBox(BallUpdate(g2.balls[i], dt).position, g2.balls[i].radius,
                                    g2.paddles[k].position, g2.paddles[k].size)
       IN  [g3 EXCEPT !.paddles =
              [k \in 1..Len(g3.paddles) |->
                 IF met(k)
                 THEN [g3.paddles[k] EXCEPT !.velocity = g2.balls[1].velocity,
                                            !.position.y = @ - PU \div 10]
                 ELSE g3.paddles[k]]]

\* PlayState.update
update(g, dt) ==
  IF g.state # "PLAYING" THEN AlienManagerUpdate(g, dt)
  ELSE LET g1 == AlienManagerUpdate(g, dt)
           g2 == [g1 EXCEPT !.paddles =
                    [k \in 1..Len(g1.paddles) |-> PaddleUpdate(g1.paddles[k], dt)]]
       IN  UpdateBalls(g2, 1, dt)

\* the keydown listener of setupKeyboardControls for the space bar
SpaceKey(g, vx) ==
  IF g.state = "READY" \/ g.state = "LEVEL_COMPLETE" THEN startGame(g)
  ELSE IF g.state = "GAME_OVER" THEN resetGame(g)
  ELSE IF g.state = "PLAYING" THEN releaseBall(g, vx)
  ELSE g

\* the click listener of setupClickListener
ClickListener(g, vx) == IF g.state = "PLAYING" THEN releaseBall(g, vx) ELSE g

\* Paddle.handleKeyDown / handleKeyUp of every paddle of the session
PaddleKey(g, left, pressed) ==
  [g EXCEPT !.paddles =
     [k \in 1..Len(g.paddles) |->
        IF left THEN [g.paddles[k] EXCEPT !.isLeftPressed = pressed]
        ELSE [g.paddles[k] EXCEPT !.isRightPressed = pressed]]]

----------------------------------------------------------------------------
(* The state machine *)

\* the PlayState constructor
Init ==
  /\ state = "READY"
  /\ score = 0
  /\ lives = 3
  /\ level = 1
  /\ ballLostTimeout = NoTimeout
  /\ timers = {}
  /\ paddles = <<createPaddle>>
  /\ balls = <<createBall(<<createPaddle>>)>>
  /\ am = NewAlienManager
  /\ reachBottomCalls = 0
  /\ calls = {}
  /\ objects = <<>>
  /\ pass = NoPass
  /\ physicsWorld = NewPhysicsWorld
  /\ worldLog = NoWorldLog

\* the session has not been disposed: it is the current state, its update is
\* called and its listeners are installed
InSession == "dispose" \notin calls

\* one frame: GameStateManager.update(deltaTime)
Tick ==
  \E dt \in DeltaTimes :
    LET g == update(Session, dt)
    IN  /\ InSession
        /\ g.level <= MaxLevel
        /\ \A i \in Alive(am) : am.aliens[i].y > alienBottomBoundary - MaxSunk * PU
        /\ Becomes(g)

\* the space bar
KeySpace == \E vx \in ReleaseVX : InSession /\ Becomes(SpaceKey(Session, vx))

\* the P key
KeyP == InSession /\ Becomes(togglePause(Session))

\* a mouse click
Click == \E vx \in ReleaseVX : InSession /\ Becomes(ClickListener(Session, vx))

\* a paddle key goes down or up
KeyPaddle ==
  \E left \in BOOLEAN, pressed \in BOOLEAN : Becomes(PaddleKey(Session, left, pressed))

\* a scheduled timeout fires
TimerFire ==
  \E h \in timers :
    Becomes(ballLostCallback([Session EXCEPT !.timers = @ \ {h}]))

\* the session with the paddle left where it is built
Next == Tick \/ KeySpace \/ KeyP \/ Click \/ TimerFire

Spec == Init /\ [][Next]_vars

\* the session with the paddle keys
NextWithPaddle == Next \/ KeyPaddle

PaddleSpec == Init /\ [][NextWithPaddle]_vars

\* the session with the browser's guarantee that a scheduled timeout fires
LiveSpec == Spec /\ WF_vars(TimerFire)

----------------------------------------------------------------------------
(* The swarm alone: AlienManager.update and the alien part of the ball loop,
   with a ball put near an alien of the formation *)

\* the formations: the program's 5 x 9, and a small one
SwarmShapes == {<<5, 9>>, <<2, 2>>}
\* where the ball is put, from the centre of the alien aimed at: touching it
\* from the side, touching it and the alien below it, and out of reach
SideOffset == Vec((3 * PU) \div 10, 0, 0)
ThrowOffsets == {SideOffset, Vec(0, -((3 * PU) \div 4), 0), Vec(PU, PU, 0)}

\* the first alive alien of the formation, 0 when there is none
FirstAlive(a) ==
  IF Alive(a) = {} THEN 0 ELSE CHOOSE i \in Alive(a) : \A j \in Alive(a) : i <= j

\* the aliens a ball is aimed at: the first alive one or the one before it
\* when the formation is large
Targets(a) ==
  IF Len(a.aliens) <= FreeHits THEN 1..Len(a.aliens)
  ELSE {FirstAlive(a), FirstAlive(a) - 1} \cap 1..Len(a.aliens)

\* where the ball is put when aimed at an alien of the formation
Offsets(a) == IF Len(a.aliens) <= FreeHits THEN ThrowOffsets ELSE {SideOffset}

\* a released ball at offset off from alien i
ThrownBall(a, i, off) ==
  [NewBall(ballRadius, Vec(alienTranslation(a.aliens[i]).x + off.x,
                           alienTranslation(a.aliens[i]).y + off.y, off.z))
     EXCEPT !.isAttachedToPaddle = FALSE, !.velocity = Vec(3 * VU, 8 * VU, 0)]

SwarmInit ==
  /\ state = "READY"
  /\ score = 0
  /\ lives = 3
  /\ level = 1
  /\ ballLostTimeout = NoTimeout
  /\ timers = {}
  /\ paddles = <<createPaddle>>
  /\ balls = <<createBall(<<createPaddle>>)>>
  /\ \E shape \in SwarmShapes : am = AlienManagerOf(shape[1], shape[2])
  /\ reachBottomCalls = 0
  /\ calls = {}
  /\ objects = <<>>
  /\ pass = NoPass
  /\ physicsWorld = NewPhysicsWorld
  /\ worldLog = NoWorldLog

\* a frame of the swarm: AlienManager.update
SwarmFrame ==
  \E dt \in DeltaTimes :
    /\ Len(am.aliens) <= FreeHits
    /\ \A i \in Alive(am) :
          am.aliens[i].y > startY - ((i - 1) \div am.columns) * verticalSpacing
                             - SwarmDepth * PU
    /\ Becomes(AlienManagerUpdate(Session, dt))

\* the ball loop finds the ball near an alien: collision pass, points and
\* level-complete test
SwarmHit ==
  \E i \in Targets(am), off \in Offsets(am) :
    LET g == CollideAndScore(Session, 1, ThrownBall(am, i, off))
    IN  /\ g.level <= MaxLevel
        /\ Becomes([g EXCEPT !.balls = balls])

SwarmNext == SwarmFrame \/ SwarmHit

SwarmSpec == SwarmInit /\ [][SwarmNext]_vars

----------------------------------------------------------------------------
(* The ball in play: a ball served from the paddle and followed frame by frame *)

\* the frame time of the main loop when the ball is followed: a tenth of a second
BallDeltaTimes == {TU \div 10}

\* where the paddle stands when the ball is served
ServeXs == {-5 * PU, 0, (5 * PU) \div 2, 7 * PU}

\* the random x component releaseBall gives the served ball
ServeVX == {-((9 * VU) \div 2), -((5 * VU) \div 2), 0, 3 * VU}

\* the alien hits the served ball has behind it
ServeHits == {0, 18}

\* the speed boost of checkCollisions applied n times
RECURSIVE Boosted(_, _)
Boosted(v, n) ==
  IF n = 0 THEN v
  ELSE Boosted(Vec(Div(v.x * 105, 100), Div(v.y * 105, 100), Div(v.z * 105, 100)), n - 1)

\* the paddle moved to x by its keys
PaddleAt(x) == [createPaddle EXCEPT !.position.x = x, !.targetPosition = x]

\* the ball served from the paddle at x with the x component vx, n alien hits
\* later and its speed capped by the Ball.update of the last frame
ServedBall(x, vx, n) ==
  LET onPaddle == attachToPaddle(NewBall(ballRadius, ballStart),
                                 PaddleAt(x).position, PaddleAt(x).size)
  IN  enforceMaxSpeed([BallRelease(onPaddle, vx) EXCEPT !.velocity = Boosted(@, n)])

BallInit ==
  /\ state = "PLAYING"
  /\ score = 0
  /\ lives = 3
  /\ level = 1
  /\ ballLostTimeout = NoTimeout
  /\ timers = {}
  /\ \E x \in ServeXs, vx \in ServeVX, n \in ServeHits :
       /\ paddles = <<PaddleAt(x)>>
       /\ balls = <<ServedBall(x, vx, n)>>
  /\ am = AlienManagerOf(2, 2)
  /\ reachBottomCalls = 0
  /\ calls = {}
  /\ objects = <<>>
  /\ pass = NoPass
  /\ physicsWorld = NewPhysicsWorld
  /\ worldLog = NoWorldLog

\* one frame with the ball in play: GameStateManager.update(deltaTime)
BallTick ==
  \E dt \in BallDeltaTimes :
    LET g == update(Session, dt)
    IN  /\ g.level <= MaxLevel
        /\ \A i \in Alive(am) :
             am.aliens[i].y > startY - ((i - 1) \div am.columns) * verticalSpacing
                                - SwarmDepth * PU
        /\ Becomes(g)

\* the space bar while the session is playing
BallSpace ==
  \E vx \in ServeVX :
    /\ state = "PLAYING"
    /\ Becomes(SpaceKey(Session, vx))

BallNext == BallTick \/ BallSpace

BallSpec == BallInit /\ [][BallNext]_vars

----------------------------------------------------------------------------
(* The ball carried on the paddle: the session started and the paddle keys used
   while the ball is still attached *)

\* the frame times of the main loop when the paddle is followed
CarryDeltaTimes == BallDeltaTimes \cup DeltaTimes

\* the space bar before the game runs: startGame
CarryStart ==
  \E vx \in ReleaseVX :
    /\ state # "PLAYING"
    /\ Becomes(SpaceKey(Session, vx))

\* one frame: GameStateManager.update(deltaTime)
CarryFrame ==
  \E dt \in CarryDeltaTimes :
    /\ \A i \in Alive(am) :
         am.aliens[i].y > startY - ((i - 1) \div am.columns) * verticalSpacing
                            - SwarmDepth * PU
    /\ Becomes(update(Session, dt))

CarryNext == CarryStart \/ CarryFrame \/ KeyPaddle

CarrySpec == Init /\ [][CarryNext]_vars

----------------------------------------------------------------------------
(* The session that can be left: the state manager switches state, onExit
   removes the listeners and disposes the session; its update is called no more *)

\* the frames and listeners of the session while it is the current state
SessionStep == Tick \/ KeySpace \/ KeyP \/ Click

\* GameStateManager.switchToPlay: currentState.onExit()
Exit == InSession /\ Becomes(dispose(Session))

ExitNext == SessionStep \/ Exit \/ TimerFire

ExitSpec == Init /\ [][ExitNext]_vars

----------------------------------------------------------------------------
(* The hovering swarm: AlienManager.update with the hover Alien.update gives
   each alien, on a formation of one row of two *)

\* the values of the sine of Alien.update taken: its extremes and its centre
HoverYs == {-hoverAmplitude, 0, hoverAmplitude}

HoverInit ==
  /\ state = "READY"
  /\ score = 0
  /\ lives = 3
  /\ level = 1
  /\ ballLostTimeout = NoTimeout
  /\ timers = {}
  /\ paddles = <<createPaddle>>
  /\ balls = <<createBall(<<createPaddle>>)>>
  /\ am = AlienManagerOf(1, 2)
  /\ reachBottomCalls = 0
  /\ calls = {}
  /\ objects = <<>>
  /\ pass = NoPass
  /\ physicsWorld = NewPhysicsWorld
  /\ worldLog = NoWorldLog

\* a frame of the swarm: every alien hovers, then the swarm may step
HoverFrame ==
  \E dt \in CarryDeltaTimes, hover \in [1..Len(am.aliens) -> HoverYs] :
    /\ \A i \in Alive(am) : am.aliens[i].y > startY - SwarmDepth * PU
    /\ Becomes(AlienManagerUpdateAt(Session, dt, hover))

HoverNext == HoverFrame \/ SwarmHit

HoverSpec == HoverInit /\ [][HoverNext]_vars

----------------------------------------------------------------------------
(* The physics world alone: SimplePhysics with bodies registered in it *)

\* new SimpleBody(position, isStatic, isBall, isPaddle, size)
SimpleBody(position, isStatic, isBall, isPaddle, size) ==
  [position |-> position, velocity |-> Vec(0, 0, 0), isStatic |-> isStatic,
   isBall |-> isBall, isPaddle |-> isPaddle, size |-> size]

\* SimpleBody.setLinvel
setLinvel(body, velocity) == [body EXCEPT !.velocity = velocity]

\* createStaticBox, createBall and createPaddle of the physics module
createStaticBox(size, position) == SimpleBody(position, TRUE, FALSE, FALSE, size)
createBallBody(radius, position) ==
  SimpleBody(position, FALSE, TRUE, FALSE, [radius |-> radius])
createPaddleBody(size, position) == SimpleBody(position, FALSE, FALSE, TRUE, size)

\* SimplePhysics.gravity
gravity == 0

\* SimplePhysics.worldBounds
physicsBounds ==
  [minX |-> -(worldSize \div 2), maxX |-> worldSize \div 2,
   minY |-> 0, maxY |-> 30 * PU,
   minZ |-> -(worldSize \div 2), maxZ |-> worldSize \div 2]

\* ballVsBall of the physics module
ballVsBall(pos1, radius1, pos2, radius2) == Shorter(Sub(pos1, pos2), radius1 + radius2)

\* resolveBallBoxCollision of the physics module, on a body
resolveBody(body, boxPos, boxSize) ==
  LET b == resolveBallBoxCollision([position |-> body.position,
                                    velocity |-> body.velocity,
                                    radius |-> body.size.radius], boxPos, boxSize)
  IN  [body EXCEPT !.position = b.position, !.velocity = b.velocity]

\* integration that moves the static bodies as well
integrateStaticToo(body, dt) ==
  LET vy == body.velocity.y - Div(gravity * dt, TU)
  IN  [body EXCEPT !.velocity.y = vy,
                   !.position = Vec(body.position.x + Travel(body.velocity.x, dt),
                                    body.position.y + Travel(vy, dt),
                                    body.position.z + Travel(body.velocity.z, dt))]

\* SimplePhysics.update, the first loop: gravity and velocity move a body
\* that is not static
integrate(body, dt) ==
  IF body.isStatic THEN body
  ELSE LET vy == body.velocity.y - Div(gravity * dt, TU)
       IN  [body EXCEPT !.velocity.y = vy,
                        !.position = Vec(body.position.x + Travel(body.velocity.x, dt),
                                         body.position.y + Travel(vy, dt),
                                         body.position.z + Travel(body.velocity.z, dt))]

\* the body of the inner loop without the skip of two static bodies
checkPairStaticToo(w, i, j) ==
  LET bodyA == w.objects[i].body
      bodyB == w.objects[j].body
      collision ==
        IF bodyA.isBall /\ bodyB.isBall
        THEN ballVsBall(bodyA.position, bodyA.size.radius,
                        bodyB.position, bodyB.size.radius)
        ELSE IF bodyA.isBall
        THEN ballVsBox(bodyA.position, bodyA.size.radius, bodyB.position, bodyB.size)
        ELSE IF bodyB.isBall
        THEN ballVsBox(bodyB.position, bodyB.size.radius, bodyA.position, bodyA.size)
        ELSE FALSE
      resolvedA == IF collision /\ bodyA.isBall /\ ~bodyB.isBall
                   THEN resolveBody(bodyA, bodyB.position, bodyB.size) ELSE bodyA
      resolvedB == IF collision /\ ~bodyA.isBall /\ bodyB.isBall
                   THEN resolveBody(bodyB, bodyA.position, bodyA.size) ELSE bodyB
      called == (IF w.objects[i].collisionCallback THEN <<[of |-> i, other |-> j]>>
                 ELSE <<>>)
                \o (IF w.objects[j].collisionCallback
                    THEN <<[of |-> j, other |-> i]>> ELSE <<>>)
  IN  [objects |-> [w.objects EXCEPT ![i].body = resolvedA, ![j].body = resolvedB],
       pairs |-> Append(w.pairs, [a |-> i, b |-> j, skipped |-> FALSE,
                                  collision |-> collision]),
       callbacks |-> IF collision THEN w.callbacks \o called ELSE w.callbacks]

\* SimplePhysics.checkCollisions, the body of the inner loop for the pair
\* (i, j); w is [objects, pairs, callbacks], pairs the pairs the loops have
\* come to and callbacks the callbacks invoked, in order
checkPair(w, i, j) ==
  LET bodyA == w.objects[i].body
      bodyB == w.objects[j].body
      collision ==
        IF bodyA.isBall /\ bodyB.isBall
        THEN ballVsBall(bodyA.position, bodyA.size.radius,
                        bodyB.position, bodyB.size.radius)
        ELSE IF bodyA.isBall
        THEN ballVsBox(bodyA.position, bodyA.size.radius, bodyB.position, bodyB.size)
        ELSE IF bodyB.isBall
        THEN ballVsBox(bodyB.position, bodyB.size.radius, bodyA.position, bodyA.size)
        ELSE FALSE
      resolvedA == IF collision /\ bodyA.isBall /\ ~bodyB.isBall
                   THEN resolveBody(bodyA, bodyB.position, bodyB.size) ELSE bodyA
      resolvedB == IF collision /\ ~bodyA.isBall /\ bodyB.isBall
                   THEN resolveBody(bodyB, bodyA.position, bodyA.size) ELSE bodyB
      called == (IF w.objects[i].collisionCallback THEN <<[of |-> i, other |-> j]>>
                 ELSE <<>>)
                \o (IF w.objects[j].collisionCallback
                    THEN <<[of |-> j, other |-> i]>> ELSE <<>>)
  IN  IF bodyA.isStatic /\ bodyB.isStatic
      THEN [w EXCEPT !.pairs = Append(@, [a |-> i, b |-> j, skipped |-> TRUE,
                                          collision |-> FALSE])]
      ELSE [objects |-> [w.objects EXCEPT ![i].body = resolvedA,
                                          ![j].body = resolvedB],
            pairs |-> Append(w.pairs, [a |-> i, b |-> j, skipped |-> FALSE,
                                       collision |-> collision]),
            callbacks |-> IF collision THEN w.callbacks \o called ELSE w.callbacks]

\* the two loops of SimplePhysics.checkCollisions from the pair (i, j) on
RECURSIVE checkFrom(_, _, _)
checkFrom(w, i, j) ==
  IF i > Len(w.objects) THEN w
  ELSE IF j > Len(w.objects) THEN checkFrom(w, i + 1, i + 2)
  ELSE checkFrom(checkPair(w, i, j), i, j + 1)

\* SimplePhysics.checkCollisions
physicsCheckCollisions(objs) ==
  checkFrom([objects |-> objs, pairs |-> <<>>, callbacks |-> <<>>], 1, 2)

\* SimplePhysics.update, the last loop: a ball is kept within the world bounds
keepWithin(body) ==
  IF ~body.isBall THEN body
  ELSE LET radius == body.size.radius
           p == body.position
           v == body.velocity
           lowX == p.x - radius < physicsBounds.minX
           highX == ~lowX /\ p.x + radius > physicsBounds.maxX
           lowY == p.y - radius < physicsBounds.minY
           highY == ~lowY /\ p.y + radius > physicsBounds.maxY
           lowZ == p.z - radius < physicsBounds.minZ
           highZ == ~lowZ /\ p.z + radius > physicsBounds.maxZ
       IN  [body EXCEPT
              !.position =
                Vec(IF lowX THEN physicsBounds.minX + radius
                    ELSE IF highX THEN physicsBounds.maxX - radius ELSE p.x,
                    IF lowY THEN physicsBounds.minY + radius
                    ELSE IF highY THEN physicsBounds.maxY - radius ELSE p.y,
                    IF lowZ THEN physicsBounds.minZ + radius
                    ELSE IF highZ THEN physicsBounds.maxZ - radius ELSE p.z),
              !.velocity =
                Vec(IF lowX \/ highX THEN -v.x ELSE v.x,
                    IF lowY \/ highY THEN -v.y ELSE v.y,
                    IF lowZ \/ highZ THEN -v.z ELSE v.z)]

\* SimplePhysics.update, the first loop over the objects
integrateAll(objs, dt) ==
  [i \in 1..Len(objs) |-> [objs[i] EXCEPT !.body = integrate(@, dt)]]

\* SimplePhysics.update, the last loop over the objects
keepAllWithin(objs) ==
  [i \in 1..Len(objs) |-> [objs[i] EXCEPT !.body = keepWithin(@)]]

\* SimplePhysics.update: [objects, pairs, callbacks] after the update
physicsUpdate(objs, dt) ==
  LET w == physicsCheckCollisions(integrateAll(objs, dt))
  IN  [w EXCEPT !.objects = keepAllWithin(@)]

\* the bodies registered: two balls close to a paddle and to each other, a
\* ball in the corner of two walls, a paddle, and a static box (with a
\* velocity set, which no update may use)
Catalogue ==
  {setLinvel(createBallBody(ballRadius, Vec(0, PU, 0)), Vec(3 * VU, -(8 * VU), 0)),
   setLinvel(createBallBody(ballRadius, Vec(PU \div 2, (12 * PU) \div 10, 0)),
             Vec(-(2 * VU), 5 * VU, 0)),
   setLinvel(createBallBody(ballRadius, Vec((19 * PU) \div 2, (59 * PU) \div 2, 0)),
             Vec(8 * VU, 8 * VU, 0)),
   setLinvel(createPaddleBody(paddleSize, paddleStart), Vec(5 * VU, 0, 0)),
   setLinvel(createStaticBox(SizeOfType("small"),
                             Vec(PU \div 2, (18 * PU) \div 10, 0)),
             Vec(0, -VU, 0))}

\* SimplePhysics.addBody, with or without a collision callback
addBody(objs, body, collisionCallback) ==
  Append(objs, [body |-> body, collisionCallback |-> collisionCallback])

\* the world with the bodies of w registered in order
RECURSIVE Registered(_, _)
Registered(w, cb) ==
  IF w = <<>> THEN <<>>
  ELSE addBody(Registered(SubSeq(w, 1, Len(w) - 1), SubSeq(cb, 1, Len(cb) - 1)),
               w[Len(w)], cb[Len(cb)])

\* which of n bodies are registered with a collision callback: all of them,
\* every other one, or every third one
Callbacks(n) ==
  {[i \in 1..n |-> TRUE], [i \in 1..n |-> i % 2 = 1], [i \in 1..n |-> i % 3 = 0]}

PhysicsInit ==
  /\ state = "READY"
  /\ score = 0
  /\ lives = 3
  /\ level = 1
  /\ ballLostTimeout = NoTimeout
  /\ timers = {}
  /\ paddles = <<>>
  /\ balls = <<>>
  /\ am = NewAlienManager
  /\ reachBottomCalls = 0
  /\ calls = {}
  /\ \E n \in 1..MaxBodies :
       \E w \in [1..n -> Catalogue], cb \in Callbacks(n) :
         objects = Registered(w, cb)
  /\ pass = NoPass
  /\ physicsWorld = NewPhysicsWorld
  /\ worldLog = NoWorldLog

\* a frame of the physics world: SimplePhysics.update
PhysicsUpdate ==
  \E dt \in CarryDeltaTimes :
    /\ pass.updates < MaxUpdates
    /\ LET w == physicsUpdate(objects, dt)
       IN  /\ objects' = w.objects
           /\ pass' = [updates |-> pass.updates + 1, pairs |-> w.pairs,
                       callbacks |-> w.callbacks]
    /\ UNCHANGED <<state, score, lives, level, ballLostTimeout, timers, balls,
                   paddles, am, reachBottomCalls, calls, physicsWorld, worldLog>>

PhysicsNext == PhysicsUpdate

PhysicsSpec == PhysicsInit /\ [][PhysicsNext]_vars

----------------------------------------------------------------------------
(* The session with a formation of one row of two aliens: frames, the space
   bar and the grace timer *)

GraceInit ==
  /\ state = "READY"
  /\ score = 0
  /\ lives = 3
  /\ level = 1
  /\ ballLostTimeout = NoTimeout
  /\ timers = {}
  /\ paddles = <<createPaddle>>
  /\ balls = <<createBall(<<createPaddle>>)>>
  /\ am = AlienManagerOf(1, 2)
  /\ reachBottomCalls = 0
  /\ calls = {}
  /\ objects = <<>>
  /\ pass = NoPass
  /\ physicsWorld = NewPhysicsWorld
  /\ worldLog = NoWorldLog

GraceNext == Tick \/ KeySpace \/ TimerFire

GraceSpec == GraceInit /\ [][GraceNext]_vars

----------------------------------------------------------------------------
(* The PhysicsWorld: the fixed-timestep accumulator of update and the
   collision events drained after each step *)

\* the time of the PhysicsWorld in fixed point: WU units are one second
WU == 600
\* FIXED_TIMESTEP = 1 / 30
FIXED_TIMESTEP == WU \div 30
\* updates are not explored once MaxElapsed units of time were handed to update
MaxElapsed == 120
\* the frame times handed to update: none, 1/60 s, 1/30 s, 1/24 s and 3/40 s
WorldDeltaTimes == {0, WU \div 60, WU \div 30, WU \div 24, (3 * WU) \div 40}
\* the most steps one update makes
MaxWorldSteps ==
  (FIXED_TIMESTEP - 1 + CHOOSE d \in WorldDeltaTimes :
                           \A e \in WorldDeltaTimes : e <= d) \div FIXED_TIMESTEP

\* the handles of the rigid bodies of the game objects
WorldHandles == {1, 2}

\* a collision event of the event queue
CollisionEvent(handle1, handle2, started) ==
  [handle1 |-> handle1, handle2 |-> handle2, started |-> started]

\* what world.step(eventQueue) may put in the queue: nothing, a contact
\* started, a contact stopped and started again
EventBatches ==
  {<<>>, <<CollisionEvent(1, 2, TRUE)>>,
   <<CollisionEvent(2, 1, FALSE), CollisionEvent(2, 1, TRUE)>>}

\* PhysicsWorld.findGameObjectByHandle: is there a game object with the handle
findGameObjectByHandle(w, handle) ==
  \E i \in 1..Len(w.bodies) : w.bodies[i] = handle

\* the handler calls of the callback of drainCollisionEvents for one event:
\* <<h, o>> is the handler of body h called with the game object of body o
HandlerCalls(w, e) ==
  IF ~e.started THEN <<>>
  ELSE LET gameObj1 == findGameObjectByHandle(w, e.handle1)
           gameObj2 == findGameObjectByHandle(w, e.handle2)
           first == IF gameObj1 /\ e.handle1 \in w.collisionHandlers /\ gameObj2
                    THEN <<<<e.handle1, e.handle2>>>> ELSE <<>>
           second == IF gameObj2 /\ e.handle2 \in w.collisionHandlers /\ gameObj1
                     THEN <<<<e.handle2, e.handle1>>>> ELSE <<>>
       IN  first \o second

\* the handler calls of drainCollisionEvents over the queue from event k on
RECURSIVE DrainFrom(_, _)
DrainFrom(w, k) ==
  IF k > Len(w.eventQueue) THEN <<>>
  ELSE HandlerCalls(w, w.eventQueue[k]) \o DrainFrom(w, k + 1)

\* PhysicsWorld.processCollisionEvents: the world after it and the handler calls
processCollisionEvents(w) ==
  [world |-> [w EXCEPT !.eventQueue = <<>>], calls |-> DrainFrom(w, 1)]

\* the loop of update with > in the place of >=
RECURSIVE WorldStepsLate(_, _, _, _)
WorldStepsLate(w, contacts, k, trace) ==
  IF w.accumulatedTime > FIXED_TIMESTEP
  THEN LET stepped == [w EXCEPT !.eventQueue = @ \o contacts[k],
                                !.accumulatedTime = @ - FIXED_TIMESTEP]
           processed == processCollisionEvents(stepped)
       IN  WorldStepsLate(processed.world, contacts, k + 1,
                          Append(trace, [reported |-> contacts[k],
                                         drained |-> stepped.eventQueue,
                                         calls |-> processed.calls,
                                         left |-> processed.world.eventQueue]))
  ELSE [world |-> w, trace |-> trace]

\* the loop of update from its step k on; contacts[k] is what world.step puts
\* in the queue at step k; the result is the world and, step by step, the
\* events reported, the events drained, the handler calls and the queue left
RECURSIVE WorldSteps(_, _, _, _)
WorldSteps(w, contacts, k, trace) ==
  IF w.accumulatedTime >= FIXED_TIMESTEP
  THEN LET stepped == [w EXCEPT !.eventQueue = @ \o contacts[k],
                                !.accumulatedTime = @ - FIXED_TIMESTEP]
           processed == processCollisionEvents(stepped)
       IN  WorldSteps(processed.world, contacts, k + 1,
                      Append(trace, [reported |-> contacts[k],
                                     drained |-> stepped.eventQueue,
                                     calls |-> processed.calls,
                                     left |-> processed.world.eventQueue]))
  ELSE [world |-> w, trace |-> trace]

\* PhysicsWorld.update
worldUpdate(w, dt, contacts) ==
  WorldSteps([w EXCEPT !.accumulatedTime = @ + dt], contacts, 1, <<>>)

\* PhysicsWorld.registerCollisionHandler
registerCollisionHandler(w, handle) ==
  [w EXCEPT !.collisionHandlers = @ \cup {handle}]

\* PhysicsWorld.unregisterCollisionHandler
unregisterCollisionHandler(w, handle) ==
  [w EXCEPT !.collisionHandlers = @ \ {handle}]

\* PhysicsWorld.addBody
worldAddBody(w, handle) == [w EXCEPT !.bodies = Append(@, handle)]

\* PhysicsWorld.removeBody
worldRemoveBody(w, handle) ==
  IF findGameObjectByHandle(w, handle)
  THEN unregisterCollisionHandler(
         [w EXCEPT !.bodies = SelectSeq(@, LAMBDA h : h # handle)], handle)
  ELSE w

\* the session and the SimplePhysics world take no part
WorldOnly ==
  UNCHANGED <<state, score, lives, level, ballLostTimeout, timers, balls,
              paddles, am, reachBottomCalls, calls, objects, pass>>

WorldInit ==
  /\ state = "READY"
  /\ score = 0
  /\ lives = 3
  /\ level = 1
  /\ ballLostTimeout = NoTimeout
  /\ timers = {}
  /\ paddles = <<>>
  /\ balls = <<>>
  /\ am = NewAlienManager
  /\ reachBottomCalls = 0
  /\ calls = {}
  /\ objects = <<>>
  /\ pass = NoPass
  /\ physicsWorld = NewPhysicsWorld
  /\ worldLog = NoWorldLog

\* a frame: PhysicsWorld.update(deltaTime)
WorldUpdate ==
  \E dt \in WorldDeltaTimes, contacts \in [1..MaxWorldSteps -> EventBatches] :
    /\ worldLog.elapsed + dt <= MaxElapsed
    /\ LET r == worldUpdate(physicsWorld, dt, contacts)
       IN  /\ physicsWorld' = r.world
           /\ worldLog' = [elapsed |-> worldLog.elapsed + dt,
                           steps |-> worldLog.steps + Len(r.trace),
                           last |-> r.trace]
    /\ WorldOnly

\* a game object is added to the world
WorldAddBody ==
  \E handle \in WorldHandles :
    /\ ~findGameObjectByHandle(physicsWorld, handle)
    /\ physicsWorld' = worldAddBody(physicsWorld, handle)
    /\ UNCHANGED worldLog
    /\ WorldOnly

\* a game object is removed from the world
WorldRemoveBody ==
  \E handle \in WorldHandles :
    /\ findGameObjectByHandle(physicsWorld, handle)
    /\ physicsWorld' = worldRemoveBody(physicsWorld, handle)
    /\ UNCHANGED worldLog
    /\ WorldOnly

\* a collision handler is registered for a game object
WorldRegister ==
  \E handle \in WorldHandles :
    /\ handle \notin physicsWorld.collisionHandlers
    /\ physicsWorld' = registerCollisionHandler(physicsWorld, handle)
    /\ UNCHANGED worldLog
    /\ WorldOnly

\* a collision handler is unregistered
WorldUnregister ==
  \E handle \in physicsWorld.collisionHandlers :
    /\ physicsWorld' = unregisterCollisionHandler(physicsWorld, handle)
    /\ UNCHANGED worldLog
    /\ WorldOnly

WorldNext ==
  WorldUpdate \/ WorldAddBody \/ WorldRemoveBody \/ WorldRegister \/ WorldUnregister

WorldSpec == WorldInit /\ [][WorldNext]_vars

----------------------------------------------------------------------------
(* The claims *)

\* C1: ball-lost debounce.  In every reachable state at most one grace timer
\* is outstanding, and it is the one ballLostTimeout holds; while a grace
\* timer is pending no step decrements lives, and a ball-lost trigger that
\* arrives then leaves lives, the timers and the latch as they are.
C1_Debounce ==
  /\ [](Cardinality(timers) <= 1 /\ ballLostTimeout = timers)
  /\ [][/\ ballLostTimeout # NoTimeout => lives' >= lives
        /\ "ballLostIgnored" \in calls' =>
              /\ ballLostTimeout # NoTimeout
              /\ lives' = lives
              /\ timers' = timers
              /\ ballLostTimeout' = ballLostTimeout]_vars

\* a ball-lost trigger arrived while the grace timer was pending
C1_Witness ==
  /\ "ballLostIgnored" \in calls
  /\ ballLostTimeout # NoTimeout
  /\ Cardinality(timers) = 1

\* A grace timer that is pending in LEVEL_COMPLETE, or in READY with all three
\* lives, was scheduled before the level reset or the restart: ballLost is
\* the only place that schedules one, and it leaves the session in READY with
\* at most two lives.
StaleTimerPending ==
  /\ timers # {}
  /\ state = "LEVEL_COMPLETE" \/ (state = "READY" /\ lives = 3)

\* C2: after a restart or a level reset, a grace timer scheduled before it
\* does not change the session state when it fires: the session leaves READY
\* (after the restart) or LEVEL_COMPLETE (after the level reset) only by the
\* start input.
C2_StaleTimerInert ==
  [][StaleTimerPending /\ state' # state => KeySpace]_vars

\* the edges of the session's state diagram
AllowedEdges ==
  { <<"READY", "PLAYING">>, <<"LEVEL_COMPLETE", "PLAYING">>,
    <<"PLAYING", "PAUSED">>, <<"PAUSED", "PLAYING">>,
    <<"PLAYING", "READY">>, <<"PLAYING", "LEVEL_COMPLETE">>,
    <<"PLAYING", "GAME_OVER">>, <<"GAME_OVER", "READY">> }

\* C3: every change of the session state is an edge of the state diagram;
\* GAME_OVER is left only by the space bar and only to READY, and the space
\* bar changes the state only in READY, LEVEL_COMPLETE (start) and GAME_OVER
\* (restart).
C3_OnlyAllowedEdges ==
  [][state' # state =>
       /\ <<state, state'>> \in AllowedEdges
       /\ state = "GAME_OVER" => KeySpace /\ state' = "READY"
       /\ KeySpace => state \in {"READY", "LEVEL_COMPLETE", "GAME_OVER"}]_vars

\* C4: PAUSED is entered only from PLAYING and left only to PLAYING, both by
\* the P key: no frame and no timeout changes the state of a paused session.
C4_PausedUntilResume ==
  [][/\ state' = "PAUSED" /\ state # "PAUSED" => state = "PLAYING" /\ KeyP
     /\ state = "PAUSED" /\ state' # "PAUSED" => state' = "PLAYING" /\ KeyP]_vars

\* the ball sits on the paddle, attached and at rest
RestsOnPaddle(b, p) ==
  /\ b.isAttachedToPaddle
  /\ b.velocity = Vec(0, 0, 0)
  /\ b.position = Vec(p.position.x, p.position.y + p.size.height \div 2 + b.radius,
                      p.position.z)

\* C5: a ball lost with no grace timer pending and more than one life takes
\* exactly one life, resets the ball (attached, at rest, on the paddle),
\* makes the session READY and schedules exactly one grace timer; the timer's
\* firing makes the session PLAYING and clears the latch; so a session with a
\* pending grace timer comes to PLAYING, and a ball-lost trigger with the
\* latch clear is processed.
C5_BallLostGrace ==
  /\ [][/\ "ballLost" \in calls' /\ lives > 1 =>
              /\ state = "PLAYING"
              /\ timers = {}
              /\ lives' = lives - 1
              /\ RestsOnPaddle(balls'[1], paddles'[1])
              /\ state' = "READY"
              /\ Cardinality(timers') = 1
              /\ ballLostTimeout' = timers'
        /\ "timeout" \in calls' =>
              /\ state' = "PLAYING"
              /\ ballLostTimeout' = NoTimeout
              /\ timers' = {}
        /\ "ballLostIgnored" \in calls' => ballLostTimeout # NoTimeout]_vars
  /\ (timers # {} ~> (state = "PLAYING" /\ ballLostTimeout = NoTimeout))

\* a second loss was processed: the grace timer of the first had fired
C5_Witness ==
  /\ "ballLost" \in calls
  /\ lives = 1
  /\ state = "READY"
  /\ Cardinality(timers) = 1

\* C6: a ball lost with one life left and no grace timer pending ends the
\* game in that frame: GAME_OVER, no lives, no timer scheduled and the latch
\* clear; a session out of lives is in GAME_OVER with no timer pending and
\* leaves GAME_OVER only by the space bar, to READY.
C6_LastLife ==
  /\ [](lives = 0 => state = "GAME_OVER" /\ timers = {} /\ ballLostTimeout = NoTimeout)
  /\ [][/\ "ballLost" \in calls' /\ lives = 1 =>
              /\ state = "PLAYING"
              /\ state' = "GAME_OVER"
              /\ lives' = 0
              /\ timers' = {}
              /\ ballLostTimeout' = NoTimeout
        /\ lives = 0 /\ state' # state => KeySpace /\ state' = "READY"]_vars

\* the last ball was lost
C6_Witness ==
  /\ "ballLost" \in calls
  /\ lives = 0
  /\ state = "GAME_OVER"

\* an alive alien of the formation a is at or below the swarm's bottom boundary
AlienAtBottom(a) ==
  \E i \in Alive(a) : alienHasReachedBottom(a.aliens[i], alienBottomBoundary)

\* C7: a frame of a PLAYING session in which the reach-bottom callback runs
\* ends in GAME_OVER with the lives it began with, and no frame ends in
\* PLAYING with an alive alien at or below the bottom boundary.
C7_BottomEndsGame ==
  [][Tick =>
       /\ state = "PLAYING" /\ "onReachBottom" \in calls' =>
             state' = "GAME_OVER" /\ lives' = lives
       /\ state' = "PLAYING" => ~AlienAtBottom(am')]_vars

\* the points of the aliens S of the formation a
RECURSIVE SumPoints(_, _)
SumPoints(a, S) ==
  IF S = {} THEN 0
  ELSE LET i == CHOOSE j \in S : TRUE
       IN  a.aliens[i].points + SumPoints(a, S \ {i})

\* the swarm a is a full formation, at rest, with the difficulty of level lvl
FreshSwarm(a, lvl) ==
  /\ Len(a.aliens) = Rows * Columns
  /\ getAliveCount(a) = Rows * Columns
  /\ \A i \in 1..Len(a.aliens) :
        a.aliens[i].y = startY - ((i - 1) \div Columns) * verticalSpacing
  /\ a.moveTimer = 0
  /\ a.currentDirection = "right"
  /\ a.moveInterval = TU
  /\ ~a.hasReachedBottom
  /\ 10 * a.horizontalSpeed = (15 + 3 * (lvl - 1)) * PU
  /\ 10 * a.moveDownAmount = (5 + (lvl - 1)) * PU
  /\ 1000 * a.speedIncreasePerAlien = (25 + 5 * (lvl - 1)) * TU

\* C8: the frame of a PLAYING session that destroys the last alien ends in
\* LEVEL_COMPLETE with the level one higher, the lives it began with, the
\* score it began with plus the points of the aliens it destroyed, and a
\* full formation with the difficulty of the new level; the level rises in
\* no other step, and no state has a formation without an alive alien.
C8_LevelComplete ==
  /\ [](~areAllDestroyed(am))
  /\ [][/\ "levelComplete" \in calls' =>
              /\ Tick
              /\ state = "PLAYING"
              /\ state' = "LEVEL_COMPLETE"
              /\ level' = level + 1
              /\ lives' = lives
              /\ score' = score + SumPoints(am, Alive(am))
              /\ FreshSwarm(am', level')
        /\ level' > level => "levelComplete" \in calls']_vars

\* the first formation was cleared
C8_Witness ==
  /\ "levelComplete" \in calls
  /\ state = "LEVEL_COMPLETE"
  /\ level = 2
  /\ score = SumPoints(am, Alive(am))

\* C9: the space bar in GAME_OVER sets the score to 0, the lives to 3, the
\* level to 1 and the state to READY, rebuilds the swarm as a full formation
\* with the difficulty of level 1 and leaves one paddle, as built, and one
\* ball, attached and at rest on it; in every other state the space bar
\* leaves score, lives and level as they are, and nothing else restarts.
C9_Restart ==
  [][/\ KeySpace /\ state = "GAME_OVER" =>
          /\ "resetGame" \in calls'
          /\ score' = 0
          /\ lives' = 3
          /\ level' = 1
          /\ state' = "READY"
          /\ FreshSwarm(am', 1)
          /\ paddles' = <<createPaddle>>
          /\ Len(balls') = 1
          /\ RestsOnPaddle(balls'[1], paddles'[1])
     /\ KeySpace /\ state # "GAME_OVER" =>
          /\ "resetGame" \notin calls'
          /\ score' = score
          /\ lives' = lives
          /\ level' = level
     /\ "resetGame" \in calls' => KeySpace /\ state = "GAME_OVER"
     /\ lives' > lives \/ score' < score \/ level' < level => "resetGame" \in calls']_vars

\* a game was restarted
C9_Witness ==
  /\ "resetGame" \in calls
  /\ state = "READY"
  /\ score = 0
  /\ lives = 3
  /\ level = 1

\* C10: the reach-bottom callback has run at most once since the swarm's last
\* reset, exactly when the latch is set; the latch is set in every state
\* with an alive alien at or below the bottom boundary, so further frames
\* there do not call it again; a reset of the swarm clears the latch and
\* starts the count again.
C10_SingleBottomLatch ==
  /\ [](/\ reachBottomCalls \in {0, 1}
        /\ am.hasReachedBottom <=> reachBottomCalls = 1
        /\ AlienAtBottom(am) => am.hasReachedBottom)
  /\ [][/\ calls' \cap {"startGame", "levelComplete", "resetGame"} # {} =>
              ~am'.hasReachedBottom /\ reachBottomCalls' = 0
        /\ "onReachBottom" \in calls' => Tick /\ ~am.hasReachedBottom]_vars

\* the swarm has sunk below the height of its first bottom reach, and the
\* callback has run once only
C10_Witness ==
  /\ reachBottomCalls = 1
  /\ "onReachBottom" \notin calls
  /\ \E i \in Alive(am) : am.aliens[i].y <= alienBottomBoundary - PU \div 2

\* the destroyed aliens of the formation a
Destroyed(a) == (1..Len(a.aliens)) \ Alive(a)

\* C11: within a formation's lifetime each alien awards its points (small
\* 30, medium 20, large 10) once: the score is the points of the formations
\* cleared before plus the points of the aliens of this formation that are
\* destroyed, whatever was hit again; the 45 aliens of a 5 x 9 formation are
\* worth 810.
C11_ScoreOncePerAlien ==
  /\ \A i \in 1..Len(am.aliens) :
        am.aliens[i].points = (CASE am.aliens[i].type = "small" -> 30
                                 [] am.aliens[i].type = "medium" -> 20
                                 [] am.aliens[i].type = "large" -> 10)
  /\ score = (level - 1) * SumPoints(am, 1..Len(am.aliens))
               + SumPoints(am, Destroyed(am))
  /\ Len(am.aliens) = 45 => SumPoints(am, 1..Len(am.aliens)) = 810

\* a 5 x 9 formation was cleared, with aliens hit again on the way
C11_Witness ==
  /\ Len(am.aliens) = 45
  /\ level = 2
  /\ score = 810
  /\ "levelComplete" \in calls

\* C12: in every state moveInterval is max(1.0 - destroyedCount *
\* speedIncreasePerAlien, 0.2), so it lies between 0.2 and 1.0 and, at level
\* 1 with the 5 x 9 formation, is 0.2 from 32 destroyed aliens on; within a
\* formation's lifetime it never rises, and a destruction lowers it unless it
\* is at the floor already.
C12_SpeedUpSchedule ==
  /\ [](/\ am.moveInterval =
             Max(TU - Cardinality(Destroyed(am)) * am.speedIncreasePerAlien, TU \div 5)
        /\ 5 * am.moveInterval >= TU
        /\ am.moveInterval <= TU
        /\ 1000 * am.speedIncreasePerAlien = (25 + 5 * (level - 1)) * TU
        /\ level = 1 /\ Cardinality(Destroyed(am)) >= 32 => 5 * am.moveInterval = TU)
  /\ [][/\ "levelComplete" \notin calls' => am'.moveInterval <= am.moveInterval
        /\ /\ "levelComplete" \notin calls'
           /\ Cardinality(Destroyed(am')) > Cardinality(Destroyed(am))
           /\ 5 * am.moveInterval > TU
           => am'.moveInterval < am.moveInterval]_vars

\* the 32nd alien of the 5 x 9 formation of level 1 was destroyed
C12_Witness ==
  /\ level = 1
  /\ Cardinality(Destroyed(am)) = 32
  /\ 5 * am.moveInterval = TU

\* a step of the swarm between two states: the same aliens are alive and they
\* have moved (a hit changes the alive aliens, a step moves every one of them)
SwarmStepTaken ==
  /\ Alive(am) # {}
  /\ Len(am'.aliens) = Len(am.aliens)
  /\ Alive(am') = Alive(am)
  /\ am'.aliens # am.aliens

\* the alien i of a, reaching `reach` to each side of its centre and moved by
\* horizontalSpeed * moveInterval in the current direction, is beyond the
\* margin-adjusted world bound on that side
WouldCross(a, i, reach) ==
  LET distance == (a.horizontalSpeed * a.moveInterval) \div TU
  IN  IF a.currentDirection = "right"
      THEN a.aliens[i].x + reach + distance > swarmBounds.max
      ELSE a.aliens[i].x - reach - distance < swarmBounds.min

\* the first of the alive aliens of a with the greatest x (moving right) or the
\* least x (moving left)
IsEdge(a, i) ==
  LET extreme(k) == \A j \in Alive(a) :
                      IF a.currentDirection = "right"
                      THEN a.aliens[j].x <= a.aliens[k].x
                      ELSE a.aliens[j].x >= a.aliens[k].x
  IN  /\ i \in Alive(a)
      /\ extreme(i)
      /\ \A j \in Alive(a) : extreme(j) => i <= j

\* what C13 says of a swarm step, the edge alien reaching `half(i)` to the side
FlipRule(half(_)) ==
  SwarmStepTaken =>
    \E e \in Alive(am) :
      LET flips == am'.currentDirection # am.currentDirection
      IN  /\ IsEdge(am, e)
          /\ flips <=> WouldCross(am, e, half(e))
          /\ flips => \A i \in Alive(am) :
                        am'.aliens[i].y = am.aliens[i].y - am.moveDownAmount
          /\ ~flips => \A i \in 1..Len(am.aliens) :
                         am'.aliens[i].y = am.aliens[i].y

HalfWidth(i) == am.aliens[i].size.width \div 2
NoWidth(i) == 0

C14_FlipStepOnlyDescends ==
  [][(SwarmStepTaken /\ am'.currentDirection # am.currentDirection) =>
       \A i \in Alive(am) :
         /\ am'.aliens[i].x = am.aliens[i].x
         /\ am'.aliens[i].z = am.aliens[i].z
         /\ am'.aliens[i].y = am.aliens[i].y - am.moveDownAmount]_vars

\* the centre of the ball is at least its radius inside every face of the world box
InsideWorld(b) ==
  /\ worldBounds.minX + b.radius <= b.position.x
  /\ b.position.x <= worldBounds.maxX - b.radius
  /\ worldBounds.minY + b.radius <= b.position.y
  /\ b.position.y <= worldBounds.maxY - b.radius
  /\ worldBounds.minZ + b.radius <= b.position.z
  /\ b.position.z <= worldBounds.maxZ - b.radius

\* on one axis: the coordinate c with velocity component v before the bounds
\* handling, c2 and v2 after it; beyond a bound the coordinate is snapped to
\* the bound plus or minus the radius and the component negated, else both stay
AxisHandled(c, v, c2, v2, r, min, max) ==
  IF c - r < min THEN c2 = min + r /\ v2 = -v
  ELSE IF c + r > max THEN c2 = max - r /\ v2 = -v
  ELSE c2 = c /\ v2 = v

\* the bounds handling of update applied to the ball b integrated over dt
BoundsHandled(b, dt) ==
  LET pre == BallUpdate(b, dt)
      post == WorldBounds(pre)
  IN  /\ InsideWorld(post)
      /\ AxisHandled(pre.position.x, pre.velocity.x, post.position.x, post.velocity.x,
                     b.radius, worldBounds.minX, worldBounds.maxX)
      /\ AxisHandled(pre.position.y, pre.velocity.y, post.position.y, post.velocity.y,
                     b.radius, worldBounds.minY, worldBounds.maxY)
      /\ AxisHandled(pre.position.z, pre.velocity.z, post.position.z, post.velocity.z,
                     b.radius, worldBounds.minZ, worldBounds.maxZ)

\* the ball of the spec's example: y = 0.3, vy = -5, radius 0.4, clear of the paddle
ExampleBall ==
  [NewBall(ballRadius, Vec(5 * PU, (3 * PU) \div 10, 0))
     EXCEPT !.isAttachedToPaddle = FALSE, !.velocity = Vec(0, -5 * VU, 0)]

WithinMaxSpeed(b) ==
  b.velocity.x * b.velocity.x + b.velocity.y * b.velocity.y
    + b.velocity.z * b.velocity.z
      <= (maxSpeed + VU \div 20) * (maxSpeed + VU \div 20)

\* C16: in every state at the end of a tick a released ball's speed is at most
\* maxSpeed = 20, so that the velocity of the next integration never exceeds it
C16_SpeedCap ==
  \A i \in 1..Len(balls) : ~balls[i].isAttachedToPaddle => WithinMaxSpeed(balls[i])

\* C17: in every state at the end of a tick in which the ball is not attached
\* to the paddle, |velocity.y| >= 2.0, also after the paddle and alien
\* reflections of that tick
C17_MinVerticalSpeed ==
  \A i \in 1..Len(balls) :
    ~balls[i].isAttachedToPaddle => Abs(balls[i].velocity.y) >= minYSpeed

\* the ball b is within collision distance of alien j of a, as checkCollisions
\* measures it
Touches(a, j, b) ==
  Shorter(Vec(b.position.x - alienTranslation(a.aliens[j]).x,
              b.position.y - alienTranslation(a.aliens[j]).y, 0),
          b.radius + a.aliens[j].size.width \div 2)

\* the collision pass of the coming frame of dt for ball i: where it meets an
\* alien that is already destroyed, the alien is left as it is and, no alive
\* alien being met, the manager (alive count and moveInterval included), the
\* points scored and the ball are left as they are
SecondHitInert(i, dt) ==
  LET g1 == AlienManagerUpdate(Session, dt)
      pads == [k \in 1..Len(g1.paddles) |-> PaddleUpdate(g1.paddles[k], dt)]
      pre == PaddleCollisions(BallUpdate(balls[i], dt), pads, 1)
      c == checkCollisions(g1.am, pre)
      g2 == CollideAndScore(g1, i, pre)
  IN  \A j \in Destroyed(g1.am) :
        Touches(g1.am, j, pre) =>
          /\ c.am.aliens[j] = g1.am.aliens[j]
          /\ (\A k \in Alive(g1.am) : ~Touches(g1.am, k, pre)) =>
                /\ c.am = g1.am
                /\ c.points = 0
                /\ c.ball = pre
                /\ g2.score = score
                /\ getAliveCount(g2.am) = getAliveCount(am)
                /\ g2.am.moveInterval = am.moveInterval

\* C19: double actions are no-ops: releasing a ball that is already released
\* leaves the ball (velocity and attached flag) and the rest of the session as
\* they are, and destroying an alien that is already destroyed, directly or by
\* a ball that meets it, changes neither the alien, the alive count,
\* moveInterval nor the score
C19_DoubleActionsInert ==
  /\ \A i \in 1..Len(balls) : \A vx \in ServeVX \cup ReleaseVX :
       ~balls[i].isAttachedToPaddle =>
         /\ BallRelease(balls[i], vx) = balls[i]
         /\ releaseBall(Session, vx) = Called(Session, "releaseBall")
  /\ \A j \in Destroyed(am) :
       /\ alienDestroy(am.aliens[j]) = am.aliens[j]
       /\ CollideAlien([am |-> am, ball |-> ThrownBall(am, j, SideOffset), points |-> 0], j)
            = [am |-> am, ball |-> ThrownBall(am, j, SideOffset), points |-> 0]
  /\ \A i \in 1..Len(balls) : \A dt \in BallDeltaTimes :
       (state = "PLAYING" /\ ~balls[i].isAttachedToPaddle) => SecondHitInert(i, dt)

\* the space bar has been pressed on a released ball in flight, which touches a
\* destroyed alien and no alive one while it moves towards the alien's centre
\* in a frame without a swarm step: the collision pass of the last frame met
\* the destroyed alien
C19_Witness ==
  /\ "releaseBall" \in calls
  /\ am.moveTimer # 0
  /\ ~balls[1].isAttachedToPaddle
  /\ balls[1].velocity.y # 8 * VU
  /\ \A k \in Alive(am) : ~Touches(am, k, balls[1])
  /\ \E j \in Destroyed(am) :
       /\ Touches(am, j, balls[1])
       /\ (balls[1].position.x - am.aliens[j].x) * balls[1].velocity.x
            + (balls[1].position.y - am.aliens[j].y) * balls[1].velocity.y < 0

\* C18: in every reachable state with the ball attached to the paddle its
\* velocity is (0,0,0), its x is the paddle's x and its y is
\* paddle.y + paddleHeight/2 + radius, also after the paddle has moved
C18_AttachedBallTracksPaddle ==
  \A i \in 1..Len(balls) :
    balls[i].isAttachedToPaddle =>
      /\ balls[i].velocity = Vec(0, 0, 0)
      /\ balls[i].position.x = paddles[1].position.x
      /\ balls[i].position.y
           = paddles[1].position.y + paddles[1].size.height \div 2 + balls[i].radius

\* the paddle p is within its boundaries, which are those of the world less
\* half the paddle's width, and stands at its target
Clamped(p) ==
  /\ p.boundaries.min = -(worldSize \div 2) + p.size.width \div 2
  /\ p.boundaries.max = worldSize \div 2 - p.size.width \div 2
  /\ p.boundaries.min <= p.targetPosition
  /\ p.targetPosition <= p.boundaries.max
  /\ p.position.x = p.targetPosition

\* Paddle.update of p with the given keys held, over dt: the result is clamped,
\* and with both keys or neither held the target is the one before
UpdateClamps(p, left, right, dt) ==
  LET q == PaddleUpdate([p EXCEPT !.isLeftPressed = left, !.isRightPressed = right], dt)
  IN  /\ Clamped(q)
      /\ (left = right) => q.targetPosition = p.targetPosition

\* the paddle of the spec's example: boundaries [-6, 6], standing at 0
ExamplePaddle ==
  NewPaddle([width |-> 8 * PU, height |-> PU \div 2, depth |-> PU], Vec(0, bottomBoundary, 0))

\* C20: after every Paddle.update, for any keys held and any dt >= 0,
\* -worldSize/2 + width/2 <= targetPosition <= worldSize/2 - width/2 and
\* position.x = targetPosition; with both or neither key held the target is
\* unchanged; from 0 with boundaries [-6, 6], left held for dt = 1.0 at speed
\* 15 gives -6
C20_PaddleClamp ==
  /\ \A k \in 1..Len(paddles) : Clamped(paddles[k])
  /\ \A k \in 1..Len(paddles) : \A left \in BOOLEAN, right \in BOOLEAN :
       \A dt \in CarryDeltaTimes \cup {0, TU, 100 * TU} :
         UpdateClamps(paddles[k], left, right, dt)
  /\ ExamplePaddle.boundaries = [min |-> -6 * PU, max |-> 6 * PU]
  /\ PaddleUpdate([ExamplePaddle EXCEPT !.isLeftPressed = TRUE], TU).targetPosition
       = -6 * PU

\* the paddle has been driven against its left boundary and its key is still
\* held: the last update clamped it
C20_Witness ==
  /\ state = "PLAYING"
  /\ paddles[1].isLeftPressed
  /\ ~paddles[1].isRightPressed
  /\ paddles[1].targetPosition = paddles[1].boundaries.min

\* the ball b has just been pushed out of the paddle p: its centre is a radius
\* (within the rounding of the push) from the closest point of the paddle, away
\* from the place it is served from
PushedOut(b, p) ==
  LET d == Sub(b.position, Closest(b.position, p.position, p.size))
  IN  /\ ~b.isAttachedToPaddle
      /\ Abs(d.x) <= PU /\ Abs(d.y) <= PU /\ Abs(d.z) <= PU
      /\ Length(d) >= b.radius - PU \div 100
      /\ Length(d) <= b.radius + PU \div 100
      /\ b.position.x # p.position.x

\* C21: the paddle is kinematic: with no paddle key held, no frame changes a
\* paddle's position or velocity, whatever the ball does to it (ball-vs-paddle
\* resolution, world-bound handling); only update by its keys and reset move it
C21_PaddleKinematic ==
  [][\A k \in 1..Len(paddles) :
       /\ Len(paddles') = Len(paddles)
       /\ paddles'[k].position = paddles[k].position
       /\ paddles'[k].velocity = paddles[k].velocity
       /\ paddles'[k].targetPosition = paddles[k].targetPosition]_vars

\* a ball has been reflected by the paddle and pushed out of it
C21_Witness ==
  /\ state = "PLAYING"
  /\ PushedOut(balls[1], paddles[1])
  /\ balls[1].velocity.y > 0
  /\ balls[1].position.y > paddles[1].position.y

\* the difficulty parameters of the swarm a are those of level lvl
DifficultyOf(a, lvl) ==
  /\ 10 * a.horizontalSpeed = (15 + 3 * (lvl - 1)) * PU
  /\ 10 * a.moveDownAmount = (5 + (lvl - 1)) * PU
  /\ 1000 * a.speedIncreasePerAlien = (25 + 5 * (lvl - 1)) * TU

\* C22: in every reachable state horizontalSpeed, moveDownAmount and
\* speedIncreasePerAlien are 1.5 + (level-1)*0.3, 0.5 + (level-1)*0.1 and
\* 0.025 + (level-1)*0.005 for the current level, and a step changes any of
\* them only by levelComplete or resetGame
C22_DifficultyByLevel ==
  /\ [](DifficultyOf(am, level))
  /\ [][(\/ am'.horizontalSpeed # am.horizontalSpeed
         \/ am'.moveDownAmount # am.moveDownAmount
         \/ am'.speedIncreasePerAlien # am.speedIncreasePerAlien)
          => ("levelComplete" \in calls' \/ "resetGame" \in calls')]_vars

\* the swarm of level 2 has stepped sideways under the difficulty of its level
C22_Witness ==
  /\ level = 2
  /\ state = "PLAYING"
  /\ DifficultyOf(am, 2)
  /\ \E i \in 1..Len(am.aliens) : am.aliens[i].x # 0
  /\ 10 * am.horizontalSpeed = 18 * PU

\* the aliens of a that have the given type
OfType(a, type) == {i \in 1..Len(a.aliens) : a.aliens[i].type = type}

\* r is the swarm a after reset: a full formation of rows x columns alive
\* aliens typed by row, moving right, the timer at 0, the interval at 1.0, the
\* latch cleared and the difficulty of a
IsReset(r, a) ==
  /\ Len(r.aliens) = a.rows * a.columns
  /\ Alive(r) = 1..Len(r.aliens)
  /\ \A i \in 1..Len(r.aliens) :
       LET row == (i - 1) \div a.columns
       IN  r.aliens[i].type = IF row = 0 THEN "small"
                              ELSE IF row <= 2 THEN "medium" ELSE "large"
  /\ (a.rows = 5 /\ a.columns = 9) =>
       /\ Len(r.aliens) = 45
       /\ Cardinality(OfType(r, "small")) = 9
       /\ Cardinality(OfType(r, "medium")) = 18
       /\ Cardinality(OfType(r, "large")) = 18
  /\ r.currentDirection = "right"
  /\ r.moveTimer = 0
  /\ r.moveInterval = TU
  /\ ~r.hasReachedBottom
  /\ r.horizontalSpeed = a.horizontalSpeed
  /\ r.moveDownAmount = a.moveDownAmount
  /\ r.speedIncreasePerAlien = a.speedIncreasePerAlien
  /\ r.rows = a.rows /\ r.columns = a.columns

\* C23: AlienManager.reset applied to the swarm of any reachable state gives
\* the full formation of rows x columns alive aliens typed by row (5 x 9: 45
\* aliens, 9 small, 18 medium, 18 large), direction right, moveTimer 0,
\* moveInterval 1.0 and the bottom latch cleared, with the difficulty
\* parameters it had
C23_ResetRebuilds == IsReset(AlienManagerReset(am), am)

\* the 5 x 9 formation, shot down to its last alien at its shortest interval,
\* has been reset by the level's completion
C23_Witness ==
  /\ "levelComplete" \in calls
  /\ am.rows = 5 /\ am.columns = 9
  /\ IsReset(am, am)
  /\ score > 0

\* C24: after dispose the session's ballLostTimeout is null and no timeout
\* scheduled by the session is pending, so that no timer callback changes the
\* disposed session: no step follows dispose
C24_DisposeCancelsTimer ==
  /\ []("dispose" \in calls => (ballLostTimeout = NoTimeout /\ timers = {}))
  /\ [][ "dispose" \in calls => UNCHANGED vars ]_vars

\* the session was disposed during the grace period after a lost ball
C24_Witness ==
  /\ "dispose" \in calls
  /\ state = "READY"
  /\ lives < 3
  /\ balls[1].isAttachedToPaddle

\* the displacement a swarm step gives the body of alien i of formation a
SwarmStepOf(a, i) ==
  Sub(alienTranslation(moveSwarm(a).aliens[i]), alienTranslation(a.aliens[i]))

\* C25: the swarm moves as a rigid formation: a swarm step displaces every
\* alive alien by one and the same vector, which in a step that does not flip
\* is (+-horizontalSpeed * moveInterval, 0, 0), and it does not move a
\* destroyed alien
C25_RigidSwarmStep ==
  LET movementDistance == (am.horizontalSpeed * am.moveInterval) \div TU
      flips == moveSwarm(am).currentDirection # am.currentDirection
  IN  /\ \A i, j \in Alive(am) : SwarmStepOf(am, i) = SwarmStepOf(am, j)
      /\ ~flips =>
            \A i \in Alive(am) :
              SwarmStepOf(am, i) =
                Vec(IF am.currentDirection = "right" THEN movementDistance
                    ELSE -movementDistance, 0, 0)
      /\ \A i \in 1..Len(am.aliens) \ Alive(am) : SwarmStepOf(am, i) = Vec(0, 0, 0)

\* the frame lengths the cadence is probed with: those of the frames, and one
\* of three whole seconds
CadenceDeltaTimes == CarryDeltaTimes \cup {3 * TU}

\* the formation a with the hover of a frame given to its aliens
Hovered(a, hover) ==
  [a EXCEPT !.aliens = [i \in 1..Len(a.aliens) |-> alienUpdate(a.aliens[i], hover[i])]]

\* C26: AlienManager.update(dt) adds dt to the timer and performs a swarm
\* step if and only if the timer has then reached moveInterval: then exactly
\* one step is made, however large dt, and the timer is 0 afterwards;
\* otherwise no alien moves, the direction stays and the timer keeps the sum
C26_SwarmCadence ==
  \A dt \in CadenceDeltaTimes, hover \in [1..Len(am.aliens) -> HoverYs] :
    LET after == AlienManagerUpdateAt(Session, dt, hover).am
        before == Hovered(am, hover)
        once == moveSwarm(before)
    IN  IF am.moveTimer + dt >= am.moveInterval
        THEN /\ after.moveTimer = 0
             /\ after.aliens = once.aliens
             /\ after.currentDirection = once.currentDirection
             /\ Alive(am) # {} => after.aliens # moveSwarm(once).aliens
        ELSE /\ after.moveTimer = am.moveTimer + dt
             /\ after.aliens = before.aliens
             /\ after.currentDirection = am.currentDirection

\* a timer that has run for some frames and that the next short frame takes
\* past the interval
C26_Witness ==
  /\ am.moveTimer > 0
  /\ am.moveTimer + TU \div 10 > am.moveInterval
  /\ Alive(am) # {}
  /\ \E i \in Alive(am) : am.aliens[i].x # createAlienFormation(1, 2)[i].x

\* ball b, moved by a frame, is found colliding with paddle pad
Detected(b, pad) ==
  ~b.isAttachedToPaddle /\ ballVsBox(b.position, b.radius, pad.position, pad.size)

\* the centre of ball b is at least its radius away from the box of pad, up
\* to the rounding of the fixed point
Clear(b, pad) ==
  ~Shorter(Sub(b.position, Closest(b.position, pad.position, pad.size)),
           b.radius - PU \div 400)

\* C28: the resolution of a detected ball-vs-box collision removes the
\* overlap: afterwards the centre of the ball is at least the radius away
\* from the box, wherever the ball was detected, on or inside the box included
C28_ResolutionRemovesOverlap ==
  \A i \in 1..Len(balls), k \in 1..Len(paddles), dt \in BallDeltaTimes :
    LET b == BallUpdate(balls[i], dt)
    IN  Detected(b, paddles[k]) =>
          Clear(resolveBallBoxCollision(b, paddles[k].position, paddles[k].size),
                paddles[k])

\* how often the pass w has invoked the callback of body i with body j
Invoked(w, i, j) ==
  Cardinality({k \in DOMAIN w.callbacks : w.callbacks[k] = [of |-> i, other |-> j]})

\* the pass w has found the bodies i and j colliding
Found(w, i, j) ==
  \E k \in DOMAIN w.pairs :
    /\ w.pairs[k].a = Min(i, j)
    /\ w.pairs[k].b = Max(i, j)
    /\ w.pairs[k].collision

\* pair p comes before pair q in index order
Before(p, q) == p.a < q.a \/ (p.a = q.a /\ p.b < q.b)

\* C27: one checkCollisions pass comes to every unordered pair of registered
\* bodies exactly once, in index order (i < j); it skips a pair of two static
\* bodies; for every pair found colliding it invokes the callback of each of
\* the two bodies exactly once, with the other body, and no other callback;
\* and it changes nothing but the position and the velocity of balls
C27_PairwisePass ==
  LET n == Len(objects)
      w == physicsCheckCollisions(objects)
  IN  /\ Len(w.pairs) = (n * (n - 1)) \div 2
      /\ \A k \in DOMAIN w.pairs :
           /\ 1 <= w.pairs[k].a /\ w.pairs[k].a < w.pairs[k].b /\ w.pairs[k].b <= n
           /\ w.pairs[k].skipped = (/\ objects[w.pairs[k].a].body.isStatic
                                    /\ objects[w.pairs[k].b].body.isStatic)
           /\ w.pairs[k].skipped => ~w.pairs[k].collision
      /\ \A k, l \in DOMAIN w.pairs : k < l => Before(w.pairs[k], w.pairs[l])
      /\ \A i, j \in 1..n :
           Invoked(w, i, j) =
             IF i # j /\ Found(w, i, j) /\ objects[i].collisionCallback THEN 1 ELSE 0
      /\ Len(w.callbacks) =
           Cardinality({<<i, j>> \in (1..n) \X (1..n) : Invoked(w, i, j) = 1})
      /\ Len(w.objects) = n
      /\ \A i \in 1..n :
           IF objects[i].body.isBall
           THEN [w.objects[i] EXCEPT !.body.position = objects[i].body.position,
                                     !.body.velocity = objects[i].body.velocity]
                  = objects[i]
           ELSE w.objects[i] = objects[i]

\* an update whose pass has skipped a pair of static bodies, and has found a
\* ball and a box colliding and invoked the callbacks of both
C27_Witness ==
  /\ pass.updates > 0
  /\ \E k \in DOMAIN pass.pairs : pass.pairs[k].skipped
  /\ \E k \in DOMAIN pass.pairs :
       LET i == pass.pairs[k].a
           j == pass.pairs[k].b
       IN  /\ pass.pairs[k].collision
           /\ objects[i].body.isBall # objects[j].body.isBall
           /\ Invoked(pass, i, j) = 1
           /\ Invoked(pass, j, i) = 1

\* the ball stands out of the world bounds on some axis
OutOfBounds(body) ==
  LET radius == body.size.radius
      p == body.position
  IN  \/ p.x - radius < physicsBounds.minX \/ p.x + radius > physicsBounds.maxX
      \/ p.y - radius < physicsBounds.minY \/ p.y + radius > physicsBounds.maxY
      \/ p.z - radius < physicsBounds.minZ \/ p.z + radius > physicsBounds.maxZ

\* C29: the integration phase of SimplePhysics.update moves every body that
\* is not static by exactly velocity * dt, changes no velocity and leaves the
\* static bodies where they are; within an update a velocity changes only by
\* the reflection of a ball found colliding with a box, or by the bounce of a
\* ball out of the world bounds
C29_IntegrationFrame ==
  \A dt \in CarryDeltaTimes :
    LET integrated == integrateAll(objects, dt)
        w == physicsCheckCollisions(integrated)
        after == keepAllWithin(w.objects)
    IN  \A i \in 1..Len(objects) :
          LET b == objects[i].body
          IN  /\ integrated[i].body.velocity = b.velocity
              /\ integrated[i].body.position =
                   IF b.isStatic THEN b.position
                   ELSE Vec(b.position.x + Travel(b.velocity.x, dt),
                            b.position.y + Travel(b.velocity.y, dt),
                            b.position.z + Travel(b.velocity.z, dt))
              /\ w.objects[i].body.velocity # b.velocity =>
                   /\ b.isBall
                   /\ \E j \in 1..Len(objects) :
                        j # i /\ Found(w, i, j) /\ ~objects[j].body.isBall
              /\ after[i].body.velocity # w.objects[i].body.velocity =>
                   b.isBall /\ OutOfBounds(w.objects[i].body)

\* an updated world with a static box, a paddle that has moved by its
\* velocity and a ball that has bounced in the corner
C29_Witness ==
  /\ pass.updates > 0
  /\ \E i, j, k \in 1..Len(objects) :
       /\ objects[i].body.isStatic
       /\ objects[i].body.position = Vec(PU \div 2, (18 * PU) \div 10, 0)
       /\ objects[j].body.isPaddle
       /\ objects[j].body.position.x > paddleStart.x
       /\ objects[k].body.isBall
       /\ objects[k].body.velocity = Vec(-(8 * VU), -(8 * VU), 0)

\* C30: in every reachable state, over any interleaving of frames, inputs and
\* timer firings, 0 <= lives <= 3, and lives = 0 implies that the session is
\* in state GAME_OVER
C30_LivesInvariant ==
  /\ 0 <= lives
  /\ lives <= 3
  /\ lives = 0 => state = "GAME_OVER"

\* the last life lost by the ball of this frame, the game over
C30_Witness ==
  /\ lives = 0
  /\ state = "GAME_OVER"
  /\ "ballLost" \in calls
  /\ "gameOver" \in calls

\* a frame of length dt takes no released ball more than 2.9 world units down
SlowFall(dt) ==
  \A i \in 1..Len(balls) :
    balls[i].isAttachedToPaddle
      \/ -Travel(balls[i].velocity.y, dt) <= (29 * PU) \div 10

\* C31: a released ball starts every frame at y >= minY + radius, 2.9 above
\* the height bottomBoundary - 3 below which it is lost, and a frame that
\* takes no released ball more than 2.9 down calls ballLost for no ball and
\* takes no life
C31_NoLossWithoutLongFall ==
  /\ \A i \in 1..Len(balls) :
       balls[i].isAttachedToPaddle
         \/ balls[i].position.y >= worldBounds.minY + balls[i].radius
  /\ worldBounds.minY + ballRadius - (bottomBoundary - 3 * PU) = (29 * PU) \div 10
  /\ \A dt \in CarryDeltaTimes :
       SlowFall(dt) =>
         LET g == update(Session, dt)
         IN  /\ "ballLost" \notin g.calls
             /\ "ballLostIgnored" \notin g.calls
             /\ g.lives = lives

\* a frame of play has put the falling ball back on the floor, all lives kept
C31_Witness ==
  /\ state = "PLAYING"
  /\ lives = 3
  /\ \E i \in 1..Len(balls) :
       /\ ~balls[i].isAttachedToPaddle
       /\ balls[i].position.y = worldBounds.minY + balls[i].radius
       /\ balls[i].velocity.y > 0
  /\ \E dt \in CarryDeltaTimes : SlowFall(dt)

\* C32: pause freezes the simulation: a frame of a paused session changes
\* neither the balls nor the paddles nor the swarm (the aliens, its move
\* timer, its direction and its bottom-reached latch)
C32_PauseFreezes ==
  state = "PAUSED" =>
    \A dt \in DeltaTimes :
      LET g == update(Session, dt)
      IN  /\ g.balls = balls
          /\ g.paddles = paddles
          /\ g.am.aliens = am.aliens
          /\ g.am.moveTimer = am.moveTimer
          /\ g.am.currentDirection = am.currentDirection
          /\ g.am.hasReachedBottom = am.hasReachedBottom

\* C33: within a level the number of alive aliens never increases: it grows
\* only in a step that completes a level or restarts the game, and in no
\* other frame, input or timer firing
C33_AliveNeverIncreases ==
  [][getAliveCount(am') > getAliveCount(am) =>
       "levelComplete" \in calls' \/ "resetGame" \in calls']_vars

\* the horizontal extent of alien i of formation a lies within the swarm's
\* world bounds
Within(a, i) ==
  /\ a.aliens[i].x - a.aliens[i].size.width \div 2 >= swarmBounds.min
  /\ a.aliens[i].x + a.aliens[i].size.width \div 2 <= swarmBounds.max

\* the formation of rows x columns lies within the bounds when it is built
BuiltWithin(rows, columns) ==
  \A i \in 1..(rows * columns) : Within(AlienManagerOf(rows, columns), i)

SwarmMoved(a, b) == \E i \in Alive(a) : b.aliens[i].x # a.aliens[i].x

BallAtBounds(dt) ==
  LET g1 == AlienManagerUpdate(Session, dt)
      g2 == [g1 EXCEPT !.paddles =
               [k \in 1..Len(g1.paddles) |-> PaddleUpdate(g1.paddles[k], dt)]]
      b2 == PaddleCollisions(BallUpdate(g2.balls[1], dt), g2.paddles, 1)
      g3 == CollideAndScore(g2, 1, b2)
      g4 == IF g3.balls[1].position.y < bottomBoundary - 3 * PU
            THEN ballLost(g3, 1) ELSE g3
  IN  g4.balls[1]

\* the session plays with its only ball released
InPlay == state = "PLAYING" /\ Len(balls) = 1 /\ ~balls[1].isAttachedToPaddle

\* C36: after the world-bound handling of a tick, on every axis where the
\* ball was put back on a bound its velocity component points into the play
\* field: not negative at a minimum bound, not positive at a maximum bound,
\* also when the paddle collision of the same tick pushed the ball past the
\* bound
C36_BounceTurnsInward ==
  InPlay =>
    \A dt \in BallDeltaTimes :
      LET b == BallAtBounds(dt)
          r == b.radius
          v == update(Session, dt).balls[1].velocity
      IN  /\ b.position.x - r < worldBounds.minX => v.x >= 0
          /\ b.position.y - r < worldBounds.minY => v.y >= 0
          /\ b.position.z - r < worldBounds.minZ => v.z >= 0
          /\ (b.position.x - r >= worldBounds.minX /\ b.position.x + r > worldBounds.maxX)
               => v.x <= 0
          /\ (b.position.y - r >= worldBounds.minY /\ b.position.y + r > worldBounds.maxY)
               => v.y <= 0
          /\ (b.position.z - r >= worldBounds.minZ /\ b.position.z + r > worldBounds.maxZ)
               => v.z <= 0

\* C37: the fixed-timestep accumulator.  After every update 0 <=
\* accumulatedTime < FIXED_TIMESTEP; an update with dt >= 0 makes
\* floor((accumulatedTime + dt) / FIXED_TIMESTEP) steps; each step drains
\* exactly the events it reported and leaves the queue empty; the time
\* simulated never exceeds the time elapsed and lags it by less than one
\* timestep
C37_FixedTimestep ==
  /\ physicsWorld.accumulatedTime >= 0
  /\ physicsWorld.accumulatedTime < FIXED_TIMESTEP
  /\ physicsWorld.eventQueue = <<>>
  /\ worldLog.steps * FIXED_TIMESTEP <= worldLog.elapsed
  /\ worldLog.elapsed - worldLog.steps * FIXED_TIMESTEP < FIXED_TIMESTEP
  /\ \A k \in 1..Len(worldLog.last) :
        /\ worldLog.last[k].drained = worldLog.last[k].reported
        /\ worldLog.last[k].left = <<>>
  /\ \A dt \in WorldDeltaTimes, contacts \in [1..MaxWorldSteps -> EventBatches] :
        LET r == worldUpdate(physicsWorld, dt, contacts)
        IN  /\ Len(r.trace) = (physicsWorld.accumulatedTime + dt) \div FIXED_TIMESTEP
            /\ r.world.accumulatedTime >= 0
            /\ r.world.accumulatedTime < FIXED_TIMESTEP

\* an update made two steps or more, a handler was called in one of them,
\* and time is left in the accumulator
C37_Witness ==
  /\ Len(worldLog.last) >= 2
  /\ \E k \in 1..Len(worldLog.last) : worldLog.last[k].calls # <<>>
  /\ physicsWorld.accumulatedTime > 0
  /\ worldLog.steps > Len(worldLog.last)

====
